---- MODULE Spec2Model ----
(***************************************************************************)
(* Board-support firmware of the RISC-V SoC: interrupt dispatcher and PLIC *)
(* driver, CLINT trap handlers, the Zicsr trap self-test and the DMA       *)
(* memcpy driver, modelled as state machines over the memory-mapped        *)
(* registers they touch.                                                    *)
(*                                                                         *)
(* Bitmaps (mie, PLIC ENABLE, CTRL words) are sets of bit positions.       *)
(* mcause is a record [irq, code]: irq is bit 31, code the low bits.       *)
(***************************************************************************)
EXTENDS Integers, Sequences, FiniteSets, TLC

\* ------------------------------------------------------------------------
\* Bounds of the model
\* ------------------------------------------------------------------------
MaxRx == 1
MaxNest == 2
MaxTime == 2
CountCap == 1
MaxTraps == 14
MaxWords == 2
MaxCalls == 2
MaxDim == 5
MaxCmds == 2
TimerHalf == 4
MaxCycles == 9
MaxBody == 2
MaxTyped == 2
MaxAcc == 2
MaxStream == 5
MaxFifo == 2
MaxExcess == 2
MaxDelay == 2
MaxGap == 1
\* SYSTEM_CLOCK_HZ / 1000000 and SYSTEM_CLOCK_HZ / 1000, scaled to the counter of the model
CyclesPerUs == 2
CyclesPerMs == 3

\* ------------------------------------------------------------------------
\* Program constants
\* ------------------------------------------------------------------------
PLIC_MAX_SOURCES == 32
PLIC_SOURCE_UART == 1
PLIC_SOURCE_GPIO == 2
PLIC_SOURCE_DMA == 3
PLIC_PRIO_MAX == 7

IRQ_M_SOFT == {3}
IRQ_M_TIMER == {7}
IRQ_M_EXT == {11}

MCAUSE_MEI == [irq |-> TRUE, code |-> 11]
MCAUSE_MSI == [irq |-> TRUE, code |-> 3]
MCAUSE_MTI == [irq |-> TRUE, code |-> 7]
MCAUSE_NONE == [irq |-> FALSE, code |-> 0]

\* Synchronous causes: illegal instruction (also an unknown CSR), EBREAK, ECALL
CAUSE_ILLEGAL == 2
CAUSE_EBREAK == 3
CAUSE_ECALL == 11
ExcCodes == {CAUSE_ILLEGAL, CAUSE_EBREAK, CAUSE_ECALL}
NoInsn == [addr |-> -1, code |-> 0]

\* test_csr.c: iterations of the ECALL loop
TILE == 4
MAX_K_DIM == 2048
RESULTS_LEN == 16
NumEcalls == 10

\* hal_dma.h: CTRL bits, as sets of bit positions
DMA_CTRL_START == {0}
DMA_CTRL_BUSY == {0}
DMA_CTRL_FIXED_DST == {1}

NULL == "NULL"
PlicIds == 1..(PLIC_MAX_SOURCES - 1)
TableIds == 0..(PLIC_MAX_SOURCES - 1)

\* Inputs the foreground draws its arguments from
Bytes == {65}
SourceArgs == {0, PLIC_SOURCE_UART, PLIC_SOURCE_GPIO, PLIC_MAX_SOURCES}
PrioArgs == {0, 1}
RegisterArgs ==
    { <<0, "my_uart_handler">>, <<PLIC_SOURCE_UART, "my_uart_handler">>,
      <<PLIC_SOURCE_UART, NULL>>, <<PLIC_SOURCE_GPIO, "my_dma_handler">>,
      <<PLIC_SOURCE_GPIO, NULL>>, <<PLIC_MAX_SOURCES, "my_dma_handler">> }

\* Inputs of the Zicsr self-test and of the DMA driver
RegVals == {0, 9}
StackTops == {256}
MemWords == MaxWords + MaxWords
SrcArgs == {0, 1}
DstArgs == {MaxWords}
SizeArgs == 0..MaxWords
FixedArgs == {0, 1, 2}

VARIABLES
    mstatus_MIE,        \* mstatus bit 3
    mstatus_MPIE,       \* mstatus bit 7
    mie,                \* mie CSR, set of bit positions
    mtvec,              \* installed trap vector
    mcause,             \* mcause CSR
    mepc,               \* mepc CSR
    cpu_pc,             \* address of the foreground's next instruction
    trap_stack,         \* frames of the trap handlers in execution
    trap_insn,          \* the trapping instruction the foreground last executed
    clint_msip,         \* CLINT MSIP latch
    clint_mtime,        \* CLINT MTIME
    clint_mtimecmp,     \* CLINT MTIMECMP
    g_software_irq_fired, \* clint_test.c
    g_timer_irq_fired,  \* clint_test.c
    g_mcause_debug,     \* clint_test.c
    g_isr_table,        \* irq_dispatch.c: g_isr_table
    plic_enable,        \* PLIC ENABLE bitmap
    plic_priority,      \* PLIC PRIORITY[id]
    plic_threshold,     \* PLIC THRESHOLD
    plic_claimed,       \* sources claimed and not yet completed (gateway closed)
    uart_rx,            \* UART RX FIFO
    gpio_irq,           \* level of the GPIO request line
    dma_irq,            \* completion request of the DMA engine, latched until claimed
    g_uart_irq_fired,   \* plic_test.c
    g_rx_char,          \* plic_test.c
    g_dma_done,         \* dma_test.c
    cc_bal,             \* per source: complete writes minus claims that returned it
    cc_zero_writes,     \* writes of ID 0 to the claim/complete register (saturating)
    regs,               \* test_csr.c: registers t0, t1, t2, sp of the core
    stack_mem,          \* test_csr.c: the three stack words the handler uses
    g_trap_counter,     \* test_csr.c
    g_last_mcause,      \* test_csr.c
    main_pc,            \* test_csr.c: position of main
    main_i,             \* test_csr.c: main's i
    falhas,             \* test_csr.c: main's falhas
    valor_antes,        \* test_csr.c: main's valor_antes, contador_antes, trap_antes
    uart_log,           \* test_csr.c: verdicts main printed
    traps_taken,        \* trap entries of the core so far
    trap_returned,      \* the trap the handler last returned from, until main goes on
    dma_regs,           \* DMA SRC, DST, CNT registers
    dma_hw,             \* DMA engine: busy, words left, pointers, fixed-destination mode
    ram,                \* memory words the DMA reads and writes
    dma_pc,             \* position of the foreground inside the DMA call
    dma_args,           \* arguments of the DMA call in execution
    dma_log,            \* register writes of the DMA call in execution
    dma_at_call,        \* DMA registers at the call, memory when the call began to write them
    dma_last_call,      \* which function the foreground called last
    dma_calls,          \* DMA calls made so far
    dma_overlap,        \* a START was written while a transfer was in flight
    s_use_dma,          \* hal_npu.c: s_use_dma
    load_pc,            \* position inside hal_npu_load_weights / hal_npu_load_inputs
    load_args,          \* which of the two functions runs, and its data and num_words
    load_i,             \* the i of the store loop
    load_calls,         \* load calls made so far
    npu_wr_log,         \* words the NPU ports received since the call in execution began
    ml_pc,              \* position inside ml_run_layer
    ml_layer,           \* tiny_ml.c: *layer
    ml_input,           \* tiny_ml.c: input[]
    ml_output,          \* tiny_ml.c: output[], the caller's array
    ml_wr,              \* number of stores to each element of output[] in this call
    out_grp,            \* tiny_ml.c: out_grp
    in_grp,             \* tiny_ml.c: in_grp
    acc,                \* tiny_ml.c: acc[4]
    w_chunk,            \* tiny_ml.c: w_chunk
    v_in,               \* tiny_ml.c: v_in
    res,                \* tiny_ml.c: res
    lib_cfg,            \* npu_lib.c: the configuration written to the array, current_flags
    npu_tile,           \* the weights the array holds
    lib_log,            \* npu_lib calls of the layer in execution
    tile_log,           \* per tile invocation: the tile, the input vector, the lanes added
    ml_reads,           \* array elements the layer in execution has read
    xor_pc,             \* tiling_test.c: position inside a case of main
    xor_i,              \* tiling_test.c: i of main
    xor_log,            \* tiling_test.c: what each case detected
    srv_image,          \* which server firmware runs
    srv_pc,             \* position inside main of the server
    srv_cmds,           \* commands received so far
    npu_state,          \* the NPU: IDLE, BUSY or DONE
    npu_config,         \* the CONFIG register
    npu_irq,            \* the NPU interrupt: none, or pending from the last START or an earlier one
    g_npu_done,         \* server/npu_server.c: g_npu_done
    done_fresh,         \* g_npu_done was set by the interrupt of the most recent START
    observed,           \* the foreground saw the completion of the most recent START
    current_k,          \* apps/npu_server.c: g_npu_ctx.current_k
    g_tiling,           \* server/npu_server.c: g_tiling
    srv_loops,          \* server/npu_server.c: loops
    srv_i,              \* server/npu_server.c: i of the tile loop
    mlp_layers,         \* apps/mlp_server.c: num_layers
    mlp_l,              \* apps/mlp_server.c: l
    mlp_hdr,            \* apps/mlp_server.c: n_in_words and n_out of the layer
    mlp_o,              \* apps/mlp_server.c: o
    buf_max,            \* per buffer, the largest extent filled so far
    cfg_writes,         \* values written to CONFIG
    npu_starts,         \* per START: was the NPU busy, and the depth configured
    out_reads,          \* per read of OUT: was the completion observed, and the NPU state
    npu_quant_mult,     \* the QUANT_MULT register
    npu_quant_cfg,      \* the QUANT_CFG register
    npu_flags,          \* the FLAGS register, set of bit positions
    cfg_call,           \* arguments of the last hal_npu_configure call
    tmr_count,          \* the 64-bit cycle counter, as halves hi and lo
    tmr_enable,         \* the ENABLE bit of the timer's CTRL register
    tmr_shadow,         \* the shadow registers LOW and HIGH
    tmr_pc,             \* position inside hal_timer_get_cycles
    tmr_lo,             \* hal_timer.h: lo of hal_timer_get_cycles
    tmr_hi,             \* hal_timer.h: hi of hal_timer_get_cycles
    tmr_ret,            \* what the last call of hal_timer_get_cycles returned
    tmr_prev,           \* what the call before it returned, if no reset came in between
    tmr_seen,           \* counter values since the call in execution began
    tmr_ran,            \* the counter advanced since the last call returned
    wire,               \* the value a server last wrote to the UART, its bytes, what was read back
    uart_image,         \* which server firmware answers on the UART
    uart_rxq,           \* bytes the host sent that the server has not read
    uart_txq,           \* bytes the server sent since it started
    cmd_pc,             \* position of the server inside its command loop
    cur_cmd,            \* the command in execution: tag, header words read, bytes left and consumed
    host_sent,          \* the commands the host sent
    cmd_log,            \* per command finished: tag, payload bytes consumed, bytes sent
    srv_store,          \* what the commands stored: g_npu_ctx, g_tiling, bytes per buffer
    run,                \* mlp_server.c: the locals of case 'R' and both ping-pong buffers
    echo_pc,            \* tests/plic_test.c: position of main inside its loop
    echo_c,             \* tests/plic_test.c: c of main
    echo_typed,         \* bytes typed at the terminal so far
    echo_out,           \* bytes main reported so far
    dmat,               \* tests/dma_test.c: position of main after dma_start_async, erros
    inf,                \* cpu_inference on two sets of buffers: parameters, lanes, results
    boot,               \* boot.c: position of main, RX FIFO, bytes taken, bytes sent
    gc,                 \* hal_uart_getc: position, c, RX FIFO, bytes arrived, bytes returned
    ld,                 \* one load command of a server: image, tag, total, bytes left and taken
    dly                 \* hal_timer_delay_us / _ms: position, argument, start, cycles, current

cpu_vars == <<mstatus_MIE, mstatus_MPIE, mie, mtvec, mcause, mepc, cpu_pc, trap_stack, trap_insn>>
plic_vars == <<plic_enable, plic_priority, plic_threshold, plic_claimed>>
timer_vars == <<clint_mtime, clint_mtimecmp>>
clint_app_vars == <<g_software_irq_fired, g_timer_irq_fired, g_mcause_debug>>
dev_vars == <<uart_rx, gpio_irq, dma_irq, clint_msip, timer_vars>>
app_vars == <<g_uart_irq_fired, g_rx_char, g_dma_done, clint_app_vars>>
ghost_vars == <<cc_bal, cc_zero_writes>>
irq_vars == <<cpu_vars, plic_vars, dev_vars, app_vars, ghost_vars, g_isr_table>>

csr_vars == <<regs, stack_mem, g_trap_counter, g_last_mcause, main_pc, main_i, falhas,
              valor_antes, uart_log, traps_taken, trap_returned>>
dma_vars == <<dma_regs, dma_hw, ram, dma_pc, dma_args, dma_log, dma_at_call,
              dma_last_call, dma_calls, dma_overlap>>
load_vars == <<s_use_dma, load_pc, load_args, load_i, load_calls, npu_wr_log>>
ml_vars == <<ml_pc, ml_layer, ml_input, ml_output, ml_wr, out_grp, in_grp, acc, w_chunk, v_in, res,
             lib_cfg, npu_tile, lib_log, tile_log, ml_reads, xor_pc, xor_i, xor_log>>
srv_vars == <<srv_image, srv_pc, srv_cmds, npu_state, npu_config, npu_irq, g_npu_done,
              done_fresh, observed, current_k, g_tiling, srv_loops, srv_i, mlp_layers, mlp_l,
              mlp_hdr, mlp_o, buf_max, cfg_writes, npu_starts, out_reads>>
cfg_vars == <<npu_quant_mult, npu_quant_cfg, npu_flags, cfg_call>>
tmr_vars == <<tmr_count, tmr_enable, tmr_shadow, tmr_pc, tmr_lo, tmr_hi, tmr_ret, tmr_prev,
              tmr_seen, tmr_ran>>
uart_vars == <<uart_image, uart_rxq, uart_txq, cmd_pc, cur_cmd, host_sent, cmd_log, srv_store, run>>
echo_vars == <<echo_pc, echo_c, echo_typed, echo_out>>
late_vars == <<inf, boot, gc, ld, dly>>
ext_vars == <<cfg_vars, tmr_vars, wire, uart_vars, echo_vars, dmat, late_vars>>
npu_vars == <<load_vars, ml_vars, srv_vars, ext_vars>>
load_rest == <<load_pc, load_args, load_i, load_calls, npu_wr_log>>
ml_others == <<irq_vars, csr_vars, dma_vars, load_vars, srv_vars, ext_vars>>
srv_others == <<irq_vars, csr_vars, dma_vars, load_vars, ml_vars, ext_vars>>
base_vars == <<irq_vars, csr_vars, dma_vars, load_vars, ml_vars, srv_vars>>
tmr_others == <<base_vars, cfg_vars, wire, uart_vars, echo_vars, dmat, late_vars>>
wire_others == <<base_vars, cfg_vars, tmr_vars, uart_vars, echo_vars, dmat, late_vars>>
uart_others == <<base_vars, cfg_vars, tmr_vars, wire, echo_vars, dmat, late_vars>>
echo_others == <<csr_vars, dma_vars, load_vars, ml_vars, srv_vars, cfg_vars, tmr_vars, wire,
                 uart_vars, dmat, late_vars>>
late_others == <<base_vars, cfg_vars, tmr_vars, wire, uart_vars, echo_vars, dmat>>
plat_vars == <<plic_vars, dev_vars, app_vars, ghost_vars, g_isr_table>>

vars == <<irq_vars, csr_vars, dma_vars, npu_vars>>

\* ------------------------------------------------------------------------
\* Helpers
\* ------------------------------------------------------------------------
Min(a, b) == IF a < b THEN a ELSE b
Max(a, b) == IF a > b THEN a ELSE b
Clamp(x, lo, hi) == Max(lo, Min(x, hi))

InTrap == trap_stack # <<>>
Top == trap_stack[Len(trap_stack)]
SetTop(f) == [trap_stack EXCEPT ![Len(trap_stack)] = f]
Pop == SubSeq(trap_stack, 1, Len(trap_stack) - 1)

\* ------------------------------------------------------------------------
\* PLIC hardware
\* ------------------------------------------------------------------------
\* Level of the request line of each source.
IrqLine(s) ==
    CASE s = PLIC_SOURCE_UART -> uart_rx # <<>>
      [] s = PLIC_SOURCE_GPIO -> gpio_irq
      [] s = PLIC_SOURCE_DMA -> dma_irq
      [] OTHER -> FALSE

\* The gateway forwards a request while the source is not in service.
PlicPending(s) == IrqLine(s) /\ s \notin plic_claimed

PlicCandidates == { s \in PlicIds : s \in plic_enable /\ PlicPending(s) /\ plic_priority[s] > 0 }

\* Highest priority first, lowest ID among equals; 0 when nothing is pending.
PlicBest ==
    IF PlicCandidates = {} THEN 0
    ELSE CHOOSE s \in PlicCandidates :
            \A t \in PlicCandidates :
                \/ plic_priority[s] > plic_priority[t]
                \/ (plic_priority[s] = plic_priority[t] /\ s <= t)

\* External interrupt line to the core.
MEIP == \E s \in PlicCandidates : plic_priority[s] > plic_threshold

\* ------------------------------------------------------------------------
\* Core: interrupt selection, trap entry, mret
\* ------------------------------------------------------------------------
TakeExt == mstatus_MIE /\ 11 \in mie /\ MEIP
TakeSoft == mstatus_MIE /\ 3 \in mie /\ clint_msip = 1 /\ ~TakeExt

\* Timer interrupt line: MTIME has reached MTIMECMP.
TimerNever == MaxTime + MaxTime + 1
MTIP == clint_mtime >= clint_mtimecmp
TakeTimer == mstatus_MIE /\ 7 \in mie /\ MTIP /\ ~TakeExt /\ ~TakeSoft
InterruptReady == TakeExt \/ TakeSoft \/ TakeTimer

EntryPc(vec) ==
    CASE vec = "irq_dispatch_handler" -> "d_csrr"
      [] vec = "clint_trap_handler" -> "c_csrr"
      [] vec = "trap_handler" -> "t_save"
      [] OTHER -> "none"

\* epc and cause keep what the hardware delivered at entry, for the properties.
NewFrame(vec, cause) ==
    [pc |-> EntryPc(vec), mcause |-> MCAUSE_NONE, source |-> 0, log |-> <<>>,
     vec |-> vec, epc |-> cpu_pc, cause |-> cause, count |-> g_trap_counter]

TrapEntry(cause) ==
    /\ mtvec # "reset"
    /\ Len(trap_stack) < MaxNest
    /\ trap_stack' = Append(trap_stack, NewFrame(mtvec, cause))
    /\ mcause' = cause
    /\ mepc' = cpu_pc
    /\ mstatus_MPIE' = mstatus_MIE
    /\ mstatus_MIE' = FALSE
    /\ UNCHANGED <<mie, mtvec, cpu_pc>>

\* The instruction at cpu_pc raises a synchronous exception. The instruction
\* stays where it is: fetched again, it traps again with the same cause.
Exception ==
    /\ ~InTrap /\ ~InterruptReady
    /\ \E c \in ExcCodes :
          /\ trap_insn.addr = cpu_pc => c = trap_insn.code
          /\ trap_insn' = [addr |-> cpu_pc, code |-> c]
          /\ TrapEntry([irq |-> FALSE, code |-> c])
    /\ UNCHANGED <<plic_vars, dev_vars, app_vars, ghost_vars, g_isr_table>>
    /\ UNCHANGED <<csr_vars, dma_vars, npu_vars>>

Mret ==
    /\ trap_stack' = Pop
    /\ mstatus_MIE' = mstatus_MPIE
    /\ mstatus_MPIE' = TRUE
    /\ cpu_pc' = IF Len(trap_stack) = 1 THEN mepc ELSE cpu_pc
    /\ UNCHANGED <<mie, mtvec, mcause, mepc, trap_insn>>

ExternalInterrupt ==
    /\ TakeExt
    /\ TrapEntry(MCAUSE_MEI)
    /\ UNCHANGED <<trap_insn, plic_vars, dev_vars, app_vars, ghost_vars, g_isr_table>>
    /\ UNCHANGED <<csr_vars, dma_vars, npu_vars>>

SoftwareInterrupt ==
    /\ TakeSoft
    /\ TrapEntry(MCAUSE_MSI)
    /\ UNCHANGED <<trap_insn, plic_vars, dev_vars, app_vars, ghost_vars, g_isr_table>>
    /\ UNCHANGED <<csr_vars, dma_vars, npu_vars>>

TimerInterrupt ==
    /\ TakeTimer
    /\ TrapEntry(MCAUSE_MTI)
    /\ UNCHANGED <<trap_insn, plic_vars, dev_vars, app_vars, ghost_vars, g_isr_table>>
    /\ UNCHANGED <<csr_vars, dma_vars, npu_vars>>

\* ------------------------------------------------------------------------
\* hal_plic.c
\* ------------------------------------------------------------------------
BalAfterClaim(s) ==
    IF s \in PlicIds THEN [cc_bal EXCEPT ![s] = Clamp(@ - 1, -2, 2)] ELSE cc_bal

BalAfterComplete(s) ==
    IF s \in PlicIds THEN [cc_bal EXCEPT ![s] = Clamp(@ + 1, -2, 2)] ELSE cc_bal

\* return PLIC_CLAIM: the read closes the gateway of the source it returns.
hal_plic_claim ==
    /\ plic_claimed' = IF PlicBest = 0 THEN plic_claimed ELSE plic_claimed \cup {PlicBest}
    /\ cc_bal' = BalAfterClaim(PlicBest)
    /\ dma_irq' = (dma_irq /\ PlicBest # PLIC_SOURCE_DMA)
    /\ UNCHANGED <<plic_enable, plic_priority, plic_threshold, cc_zero_writes>>

\* PLIC_CLAIM = source_id
hal_plic_complete(source_id) ==
    /\ plic_claimed' = plic_claimed \ {source_id}
    /\ cc_bal' = BalAfterComplete(source_id)
    /\ cc_zero_writes' = IF source_id = 0 THEN Min(cc_zero_writes + 1, CountCap)
                         ELSE cc_zero_writes
    /\ UNCHANGED <<plic_enable, plic_priority, plic_threshold>>

\* Variant: PLIC_ENABLE is left as it was.
hal_plic_init_keeps_enable ==
    /\ plic_enable' = plic_enable
    /\ plic_threshold' = 0
    /\ plic_priority' = [i \in PlicIds |-> 0]
    /\ plic_claimed' = plic_claimed \ {0}
    /\ cc_zero_writes' = Min(cc_zero_writes + 1, CountCap)
    /\ UNCHANGED cc_bal

hal_plic_init ==
    /\ plic_enable' = {}
    /\ plic_threshold' = 0
    /\ plic_priority' = [i \in PlicIds |-> 0]
    /\ plic_claimed' = plic_claimed \ {0}
    /\ cc_zero_writes' = Min(cc_zero_writes + 1, CountCap)
    /\ UNCHANGED cc_bal

\* Variant: source 0 is not rejected.
hal_plic_enable_accepts_zero(source_id) ==
    /\ plic_enable' = IF source_id >= PLIC_MAX_SOURCES THEN plic_enable
                      ELSE plic_enable \cup {source_id}
    /\ UNCHANGED <<plic_priority, plic_threshold, plic_claimed>>

hal_plic_enable(source_id) ==
    /\ plic_enable' = IF source_id = 0 \/ source_id >= PLIC_MAX_SOURCES THEN plic_enable
                      ELSE plic_enable \cup {source_id}
    /\ UNCHANGED <<plic_priority, plic_threshold, plic_claimed>>

hal_plic_disable(source_id) ==
    /\ plic_enable' = IF source_id = 0 \/ source_id >= PLIC_MAX_SOURCES THEN plic_enable
                      ELSE plic_enable \ {source_id}
    /\ UNCHANGED <<plic_priority, plic_threshold, plic_claimed>>

hal_plic_set_priority(source_id, priority) ==
    /\ plic_priority' =
          IF source_id = 0 \/ source_id >= PLIC_MAX_SOURCES THEN plic_priority
          ELSE [plic_priority EXCEPT ![source_id] = Min(priority, PLIC_PRIO_MAX)]
    /\ UNCHANGED <<plic_enable, plic_threshold, plic_claimed>>

\* ------------------------------------------------------------------------
\* Registered callbacks
\* ------------------------------------------------------------------------
\* Variant: the callback re-enables machine interrupts before it returns.
my_uart_handler_reenables ==
    /\ IF uart_rx # <<>>
       THEN /\ g_rx_char' = Head(uart_rx)
            /\ uart_rx' = Tail(uart_rx)
            /\ g_uart_irq_fired' = TRUE
       ELSE UNCHANGED <<g_rx_char, uart_rx, g_uart_irq_fired>>
    /\ mstatus_MIE' = TRUE
    /\ UNCHANGED <<g_dma_done, clint_app_vars>>

my_uart_handler ==
    /\ IF uart_rx # <<>>
       THEN /\ g_rx_char' = Head(uart_rx)
            /\ uart_rx' = Tail(uart_rx)
            /\ g_uart_irq_fired' = TRUE
       ELSE UNCHANGED <<g_rx_char, uart_rx, g_uart_irq_fired>>
    /\ UNCHANGED <<g_dma_done, clint_app_vars, mstatus_MIE>>

my_dma_handler ==
    /\ g_dma_done' = TRUE
    /\ UNCHANGED <<g_rx_char, uart_rx, g_uart_irq_fired, clint_app_vars, mstatus_MIE>>

RunHandler(h) ==
    CASE h = "my_uart_handler" -> my_uart_handler
      [] h = "my_dma_handler" -> my_dma_handler

\* ------------------------------------------------------------------------
\* irq_dispatch.c: irq_dispatch_handler, one action per statement
\* ------------------------------------------------------------------------
DispAt(l) == InTrap /\ Top.pc = l /\ ~InterruptReady

\* csrr mcause; if (mcause == 0x8000000B)
irq_dispatch_csrr ==
    /\ DispAt("d_csrr")
    /\ trap_stack' = SetTop([Top EXCEPT !.mcause = mcause,
                                         !.pc = IF mcause = MCAUSE_MEI THEN "d_claim" ELSE "d_ret"])
    /\ UNCHANGED <<mstatus_MIE, mstatus_MPIE, mie, mtvec, mcause, mepc, cpu_pc, trap_insn>>
    /\ UNCHANGED <<plic_vars, dev_vars, app_vars, ghost_vars, g_isr_table>>
    /\ UNCHANGED <<csr_vars, dma_vars, npu_vars>>

\* uint32_t source = hal_plic_claim();
irq_dispatch_claim ==
    /\ DispAt("d_claim")
    /\ hal_plic_claim
    /\ trap_stack' = SetTop([Top EXCEPT !.source = PlicBest, !.pc = "d_lookup",
                                         !.log = Append(@, <<"claim", PlicBest>>)])
    /\ UNCHANGED <<mstatus_MIE, mstatus_MPIE, mie, mtvec, mcause, mepc, cpu_pc, trap_insn>>
    /\ UNCHANGED <<uart_rx, gpio_irq, clint_msip, timer_vars, app_vars, g_isr_table>>
    /\ UNCHANGED <<csr_vars, dma_vars, npu_vars>>

\* Variant: the complete is placed inside the branch that calls the handler.
irq_dispatch_lookup_skips_complete ==
    /\ DispAt("d_lookup")
    /\ trap_stack' = SetTop([Top EXCEPT !.pc =
            IF Top.source > 0 /\ Top.source < PLIC_MAX_SOURCES
               /\ g_isr_table[Top.source] # NULL
            THEN "d_call" ELSE "d_ret"])
    /\ UNCHANGED <<mstatus_MIE, mstatus_MPIE, mie, mtvec, mcause, mepc, cpu_pc, trap_insn>>
    /\ UNCHANGED <<plic_vars, dev_vars, app_vars, ghost_vars, g_isr_table>>
    /\ UNCHANGED <<csr_vars, dma_vars, npu_vars>>

\* Variant: the lower bound of the range test is dropped (source >= 0).
irq_dispatch_lookup_allows_zero ==
    /\ DispAt("d_lookup")
    /\ trap_stack' = SetTop([Top EXCEPT !.pc =
            IF Top.source >= 0 /\ Top.source < PLIC_MAX_SOURCES
               /\ g_isr_table[Top.source] # NULL
            THEN "d_call" ELSE "d_complete"])
    /\ UNCHANGED <<mstatus_MIE, mstatus_MPIE, mie, mtvec, mcause, mepc, cpu_pc, trap_insn>>
    /\ UNCHANGED <<plic_vars, dev_vars, app_vars, ghost_vars, g_isr_table>>
    /\ UNCHANGED <<csr_vars, dma_vars, npu_vars>>

\* if (source > 0 && source < PLIC_MAX_SOURCES) if (g_isr_table[source] != NULL)
irq_dispatch_lookup ==
    /\ DispAt("d_lookup")
    /\ trap_stack' = SetTop([Top EXCEPT !.pc =
            IF Top.source > 0 /\ Top.source < PLIC_MAX_SOURCES
               /\ g_isr_table[Top.source] # NULL
            THEN "d_call" ELSE "d_complete"])
    /\ UNCHANGED <<mstatus_MIE, mstatus_MPIE, mie, mtvec, mcause, mepc, cpu_pc, trap_insn>>
    /\ UNCHANGED <<plic_vars, dev_vars, app_vars, ghost_vars, g_isr_table>>
    /\ UNCHANGED <<csr_vars, dma_vars, npu_vars>>

\* g_isr_table[source]();
irq_dispatch_call ==
    /\ DispAt("d_call")
    /\ RunHandler(g_isr_table[Top.source])
    /\ trap_stack' = SetTop([Top EXCEPT !.pc = "d_complete",
                                         !.log = Append(@, <<"call", g_isr_table[Top.source]>>)])
    /\ UNCHANGED <<mstatus_MPIE, mie, mtvec, mcause, mepc, cpu_pc, trap_insn>>
    /\ UNCHANGED <<plic_vars, gpio_irq, dma_irq, clint_msip, timer_vars, ghost_vars, g_isr_table>>
    /\ UNCHANGED <<csr_vars, dma_vars, npu_vars>>

\* Variant: the complete always writes 0, as the blind complete of hal_plic_init.
irq_dispatch_complete_writes_zero ==
    /\ DispAt("d_complete")
    /\ hal_plic_complete(0)
    /\ trap_stack' = SetTop([Top EXCEPT !.pc = "d_ret",
                                         !.log = Append(@, <<"complete", 0>>)])
    /\ UNCHANGED <<mstatus_MIE, mstatus_MPIE, mie, mtvec, mcause, mepc, cpu_pc, trap_insn>>
    /\ UNCHANGED <<dev_vars, app_vars, g_isr_table>>
    /\ UNCHANGED <<csr_vars, dma_vars, npu_vars>>

\* hal_plic_complete(source);
irq_dispatch_complete ==
    /\ DispAt("d_complete")
    /\ hal_plic_complete(Top.source)
    /\ trap_stack' = SetTop([Top EXCEPT !.pc = "d_ret",
                                         !.log = Append(@, <<"complete", Top.source>>)])
    /\ UNCHANGED <<mstatus_MIE, mstatus_MPIE, mie, mtvec, mcause, mepc, cpu_pc, trap_insn>>
    /\ UNCHANGED <<dev_vars, app_vars, g_isr_table>>
    /\ UNCHANGED <<csr_vars, dma_vars, npu_vars>>

\* return from the interrupt("machine") function: mret
irq_dispatch_mret ==
    /\ DispAt("d_ret")
    /\ Mret
    /\ UNCHANGED <<plic_vars, dev_vars, app_vars, ghost_vars, g_isr_table>>
    /\ UNCHANGED <<csr_vars, dma_vars, npu_vars>>

irq_dispatch_handler ==
    \/ irq_dispatch_csrr
    \/ irq_dispatch_claim
    \/ irq_dispatch_lookup
    \/ irq_dispatch_call
    \/ irq_dispatch_complete
    \/ irq_dispatch_mret

\* ------------------------------------------------------------------------
\* Foreground: the API calls an application makes between traps
\* ------------------------------------------------------------------------
Foreground == ~InTrap /\ ~InterruptReady /\ trap_insn.addr # cpu_pc

\* Variant: registering a handler clears the entries of the other sources.
hal_irq_register_clears_rest(source_id, handler) ==
    /\ g_isr_table' = IF source_id < PLIC_MAX_SOURCES
                      THEN [i \in TableIds |-> IF i = source_id THEN handler ELSE NULL]
                      ELSE g_isr_table

hal_irq_register(source_id, handler) ==
    /\ g_isr_table' = IF source_id < PLIC_MAX_SOURCES
                      THEN [g_isr_table EXCEPT ![source_id] = handler]
                      ELSE g_isr_table

hal_irq_set_handler(handler_addr) == mtvec' = handler_addr

hal_irq_mask_enable(mask) == mie' = mie \cup mask

hal_irq_mask_disable(mask) == mie' = mie \ mask

hal_irq_global_enable == mstatus_MIE' = TRUE

hal_irq_global_disable == mstatus_MIE' = FALSE

hal_irq_init ==
    /\ hal_plic_init
    /\ hal_irq_set_handler("irq_dispatch_handler")
    /\ hal_irq_mask_enable(IRQ_M_EXT)

FgIrqInit ==
    /\ Foreground
    /\ hal_irq_init
    /\ UNCHANGED <<mstatus_MIE, mstatus_MPIE, mcause, mepc, cpu_pc, trap_stack, trap_insn>>
    /\ UNCHANGED <<dev_vars, app_vars, g_isr_table>>
    /\ UNCHANGED <<csr_vars, dma_vars, npu_vars>>

FgRegister ==
    /\ Foreground
    /\ \E a \in RegisterArgs : hal_irq_register(a[1], a[2])
    /\ UNCHANGED <<cpu_vars, plic_vars, dev_vars, app_vars, ghost_vars>>
    /\ UNCHANGED <<csr_vars, dma_vars, npu_vars>>

FgPlicSetPriority ==
    /\ Foreground
    /\ \E s \in SourceArgs, p \in PrioArgs : hal_plic_set_priority(s, p)
    /\ UNCHANGED <<cpu_vars, dev_vars, app_vars, ghost_vars, g_isr_table>>
    /\ UNCHANGED <<csr_vars, dma_vars, npu_vars>>

FgPlicEnable ==
    /\ Foreground
    /\ \E s \in SourceArgs : hal_plic_enable(s)
    /\ UNCHANGED <<cpu_vars, dev_vars, app_vars, ghost_vars, g_isr_table>>
    /\ UNCHANGED <<csr_vars, dma_vars, npu_vars>>

FgPlicDisable ==
    /\ Foreground
    /\ \E s \in SourceArgs : hal_plic_disable(s)
    /\ UNCHANGED <<cpu_vars, dev_vars, app_vars, ghost_vars, g_isr_table>>
    /\ UNCHANGED <<csr_vars, dma_vars, npu_vars>>

FgGlobalEnable ==
    /\ Foreground
    /\ mtvec # "reset"
    /\ hal_irq_global_enable
    /\ UNCHANGED <<mstatus_MPIE, mie, mtvec, mcause, mepc, cpu_pc, trap_stack, trap_insn>>
    /\ UNCHANGED <<plic_vars, dev_vars, app_vars, ghost_vars, g_isr_table>>
    /\ UNCHANGED <<csr_vars, dma_vars, npu_vars>>

FgGlobalDisable ==
    /\ Foreground
    /\ hal_irq_global_disable
    /\ UNCHANGED <<mstatus_MPIE, mie, mtvec, mcause, mepc, cpu_pc, trap_stack, trap_insn>>
    /\ UNCHANGED <<plic_vars, dev_vars, app_vars, ghost_vars, g_isr_table>>
    /\ UNCHANGED <<csr_vars, dma_vars, npu_vars>>

FgMaskEnable ==
    /\ Foreground
    /\ mtvec # "reset"
    /\ \E m \in {IRQ_M_SOFT, IRQ_M_EXT} : hal_irq_mask_enable(m)
    /\ UNCHANGED <<mstatus_MIE, mstatus_MPIE, mtvec, mcause, mepc, cpu_pc, trap_stack, trap_insn>>
    /\ UNCHANGED <<plic_vars, dev_vars, app_vars, ghost_vars, g_isr_table>>
    /\ UNCHANGED <<csr_vars, dma_vars, npu_vars>>

\* CLINT_MSIP = 1
FgWriteMsip ==
    /\ Foreground
    /\ clint_msip' = 1
    /\ UNCHANGED <<cpu_vars, plic_vars, uart_rx, gpio_irq, dma_irq, timer_vars, app_vars, ghost_vars, g_isr_table>>
    /\ UNCHANGED <<csr_vars, dma_vars, npu_vars>>

\* ------------------------------------------------------------------------
\* clint_test.c: trap_handler, and the CLINT timer
\* ------------------------------------------------------------------------
\* Programs the compare register to now + delta.
hal_timer_set_irq_delta(delta) == clint_mtimecmp' = clint_mtime + delta

\* Programs the compare register to all-ones, which lowers the timer line.
hal_timer_irq_ack == clint_mtimecmp' = TimerNever

\* csrr mcause; g_mcause_debug = mcause; if ((int32_t)mcause < 0) switch (mcause & 0xF)
clint_trap_csrr ==
    /\ DispAt("c_csrr")
    /\ g_mcause_debug' = mcause
    /\ trap_stack' = SetTop([Top EXCEPT !.mcause = mcause,
            !.pc = IF mcause.irq /\ mcause.code = 3 THEN "c_case3"
                   ELSE IF mcause.irq /\ mcause.code = 7 THEN "c_case7"
                   ELSE "c_ret"])
    /\ UNCHANGED <<mstatus_MIE, mstatus_MPIE, mie, mtvec, mcause, mepc, cpu_pc, trap_insn>>
    /\ UNCHANGED <<g_uart_irq_fired, g_rx_char, g_dma_done, g_software_irq_fired,
                   g_timer_irq_fired>>
    /\ UNCHANGED <<plic_vars, dev_vars, ghost_vars, g_isr_table>>
    /\ UNCHANGED <<csr_vars, dma_vars, npu_vars>>

\* case 3: g_software_irq_fired = true; CLINT_MSIP = 0;
clint_trap_case3 ==
    /\ DispAt("c_case3")
    /\ g_software_irq_fired' = TRUE
    /\ clint_msip' = 0
    /\ trap_stack' = SetTop([Top EXCEPT !.pc = "c_ret"])
    /\ UNCHANGED <<mstatus_MIE, mstatus_MPIE, mie, mtvec, mcause, mepc, cpu_pc, trap_insn>>
    /\ UNCHANGED <<g_uart_irq_fired, g_rx_char, g_dma_done, g_timer_irq_fired, g_mcause_debug>>
    /\ UNCHANGED <<plic_vars, uart_rx, gpio_irq, dma_irq, timer_vars, ghost_vars, g_isr_table>>
    /\ UNCHANGED <<csr_vars, dma_vars, npu_vars>>

\* case 7: g_timer_irq_fired = true; hal_timer_irq_ack();
clint_trap_case7 ==
    /\ DispAt("c_case7")
    /\ g_timer_irq_fired' = TRUE
    /\ hal_timer_irq_ack
    /\ trap_stack' = SetTop([Top EXCEPT !.pc = "c_ret"])
    /\ UNCHANGED <<mstatus_MIE, mstatus_MPIE, mie, mtvec, mcause, mepc, cpu_pc, trap_insn>>
    /\ UNCHANGED <<g_uart_irq_fired, g_rx_char, g_dma_done, g_software_irq_fired, g_mcause_debug>>
    /\ UNCHANGED <<plic_vars, uart_rx, gpio_irq, dma_irq, clint_msip, clint_mtime, ghost_vars, g_isr_table>>
    /\ UNCHANGED <<csr_vars, dma_vars, npu_vars>>

clint_trap_mret ==
    /\ DispAt("c_ret")
    /\ Mret
    /\ UNCHANGED <<plic_vars, dev_vars, app_vars, ghost_vars, g_isr_table>>
    /\ UNCHANGED <<csr_vars, dma_vars, npu_vars>>

\* hal_irq_set_handler(trap_handler), clint_test.c main
FgSetClintHandler ==
    /\ Foreground
    /\ hal_irq_set_handler("clint_trap_handler")
    /\ UNCHANGED <<mstatus_MIE, mstatus_MPIE, mie, mcause, mepc, cpu_pc, trap_stack, trap_insn>>
    /\ UNCHANGED <<plic_vars, dev_vars, app_vars, ghost_vars, g_isr_table>>
    /\ UNCHANGED <<csr_vars, dma_vars, npu_vars>>

\* hal_irq_mask_enable(IRQ_M_TIMER) and hal_irq_mask_disable of either CLINT mask
FgMaskTimer ==
    /\ Foreground
    /\ mtvec # "reset"
    /\ \/ hal_irq_mask_enable(IRQ_M_TIMER)
       \/ \E m \in {IRQ_M_SOFT, IRQ_M_TIMER} : hal_irq_mask_disable(m)
    /\ UNCHANGED <<mstatus_MIE, mstatus_MPIE, mtvec, mcause, mepc, cpu_pc, trap_stack, trap_insn>>
    /\ UNCHANGED <<plic_vars, dev_vars, app_vars, ghost_vars, g_isr_table>>
    /\ UNCHANGED <<csr_vars, dma_vars, npu_vars>>

FgArmTimer ==
    /\ Foreground
    /\ \E delta \in 1..MaxTime : hal_timer_set_irq_delta(delta)
    /\ UNCHANGED <<cpu_vars, plic_vars, uart_rx, gpio_irq, dma_irq, clint_msip, clint_mtime,
                   app_vars, ghost_vars, g_isr_table>>
    /\ UNCHANGED <<csr_vars, dma_vars, npu_vars>>

\* The free-running counter advances.
TimerTick ==
    /\ clint_mtime < MaxTime
    /\ clint_mtime' = clint_mtime + 1
    /\ UNCHANGED <<cpu_vars, plic_vars, uart_rx, gpio_irq, dma_irq, clint_msip, clint_mtimecmp,
                   app_vars, ghost_vars, g_isr_table>>
    /\ UNCHANGED <<csr_vars, dma_vars, npu_vars>>

\* ------------------------------------------------------------------------
\* test_csr.c: trap_handler and main (TEST 2 to TEST 6)
\* ------------------------------------------------------------------------
StackAddrs == UNION { {top - 12, top - 8, top - 4} : top \in StackTops }

\* Addresses of the two globals.
SymAddr(sym) ==
    CASE sym = "g_trap_counter" -> 512
      [] sym = "g_last_mcause" -> 516

\* The trapping instructions of main: ecall, ebreak, csrr x0, 0x800 and
\* .word 0xFFFFFFFF, each at its own address; the ECALL loop executes the
\* same ecall every iteration.
TrapLabels == {"m_ecall", "m_ebreak", "m_csr", "m_word"}

InsnAddr(l) ==
    CASE l = "m_ecall" -> 16
      [] l = "m_ebreak" -> 32
      [] l = "m_csr" -> 48
      [] l = "m_word" -> 64

InsnCause(l) ==
    CASE l = "m_ecall" -> CAUSE_ECALL
      [] l = "m_ebreak" -> CAUSE_EBREAK
      [] l = "m_csr" -> CAUSE_ILLEGAL
      [] l = "m_word" -> CAUSE_ILLEGAL

NoTrap == [valid |-> FALSE, epc |-> 0, cause |-> MCAUSE_NONE, count |-> 0]

\* The mcause CSR as the 32-bit word a csrrw moves (two's complement), and back.
CauseWord(m) == IF m.irq THEN (m.code - 2147483647) - 1 ELSE m.code
WordCause(w) == [irq |-> w < 0, code |-> IF w < 0 THEN (w + 2147483647) + 1 ELSE w]

LoadWord(a) ==
    CASE a = SymAddr("g_trap_counter") -> g_trap_counter
      [] a = SymAddr("g_last_mcause") -> g_last_mcause
      [] a \in StackAddrs -> stack_mem[a]

StoreWord(a, v) ==
    /\ g_trap_counter' = IF a = SymAddr("g_trap_counter") THEN v ELSE g_trap_counter
    /\ g_last_mcause' = IF a = SymAddr("g_last_mcause") THEN v ELSE g_last_mcause
    /\ stack_mem' = IF a \in StackAddrs THEN [stack_mem EXCEPT ![a] = v] ELSE stack_mem

HandlerAt(l) == InTrap /\ Top.vec = "trap_handler" /\ Top.pc = l

HandlerGoto(l) == trap_stack' = SetTop([Top EXCEPT !.pc = l])

\* The instruction main has reached raises its synchronous exception.
SyncTrap ==
    /\ ~InTrap
    /\ main_pc \in TrapLabels
    /\ cpu_pc = InsnAddr(main_pc)
    /\ traps_taken < MaxTraps
    /\ TrapEntry([irq |-> FALSE, code |-> InsnCause(main_pc)])
    /\ traps_taken' = traps_taken + 1
    /\ UNCHANGED <<regs, stack_mem, g_trap_counter, g_last_mcause, main_pc, main_i, falhas,
                   valor_antes, uart_log, trap_returned>>
    /\ UNCHANGED <<trap_insn, plat_vars, dma_vars, npu_vars>>

\* addi sp, sp, -12; sw t0, 0(sp); sw t1, 4(sp); sw t2, 8(sp)
trap_handler_save ==
    /\ HandlerAt("t_save")
    /\ LET sp == regs.sp - 12
       IN  /\ regs' = [regs EXCEPT !.sp = sp]
           /\ stack_mem' = [stack_mem EXCEPT ![sp] = regs.t0, ![sp + 4] = regs.t1,
                                             ![sp + 8] = regs.t2]
    /\ HandlerGoto("t_count")
    /\ UNCHANGED <<g_trap_counter, g_last_mcause, main_pc, main_i, falhas, valor_antes,
                   uart_log, traps_taken, trap_returned>>
    /\ UNCHANGED <<mstatus_MIE, mstatus_MPIE, mie, mtvec, mcause, mepc, cpu_pc, trap_insn>>
    /\ UNCHANGED <<plat_vars, dma_vars, npu_vars>>

\* la t0, g_trap_counter; lw t1, 0(t0); addi t1, t1, 1; sw t1, 0(t0)
trap_handler_count ==
    /\ HandlerAt("t_count")
    /\ LET t0 == SymAddr("g_trap_counter")
           t1 == LoadWord(t0) + 1
       IN  /\ regs' = [regs EXCEPT !.t0 = t0, !.t1 = t1]
           /\ StoreWord(t0, t1)
    /\ HandlerGoto("t_cause")
    /\ UNCHANGED <<main_pc, main_i, falhas, valor_antes, uart_log, traps_taken, trap_returned>>
    /\ UNCHANGED <<mstatus_MIE, mstatus_MPIE, mie, mtvec, mcause, mepc, cpu_pc, trap_insn>>
    /\ UNCHANGED <<plat_vars, dma_vars, npu_vars>>

\* csrrw t2, mcause, x0; la t0, g_last_mcause; sw t2, 0(t0); csrrw x0, mcause, t2
trap_handler_cause ==
    /\ HandlerAt("t_cause")
    /\ LET t2 == CauseWord(mcause)
           t0 == SymAddr("g_last_mcause")
       IN  /\ regs' = [regs EXCEPT !.t0 = t0, !.t2 = t2]
           /\ StoreWord(t0, t2)
           /\ mcause' = WordCause(t2)
    /\ HandlerGoto("t_restore")
    /\ UNCHANGED <<main_pc, main_i, falhas, valor_antes, uart_log, traps_taken, trap_returned>>
    /\ UNCHANGED <<mstatus_MIE, mstatus_MPIE, mie, mtvec, mepc, cpu_pc, trap_insn>>
    /\ UNCHANGED <<plat_vars, dma_vars, npu_vars>>

\* lw t2, 8(sp); lw t1, 4(sp); lw t0, 0(sp); addi sp, sp, 12
trap_handler_restore ==
    /\ HandlerAt("t_restore")
    /\ regs' = [t0 |-> LoadWord(regs.sp), t1 |-> LoadWord(regs.sp + 4),
                t2 |-> LoadWord(regs.sp + 8), sp |-> regs.sp + 12]
    /\ HandlerGoto("t_mepc")
    /\ UNCHANGED <<stack_mem, g_trap_counter, g_last_mcause, main_pc, main_i, falhas,
                   valor_antes, uart_log, traps_taken, trap_returned>>
    /\ UNCHANGED <<mstatus_MIE, mstatus_MPIE, mie, mtvec, mcause, mepc, cpu_pc, trap_insn>>
    /\ UNCHANGED <<plat_vars, dma_vars, npu_vars>>

trap_handler_mepc_not_advanced ==
    /\ HandlerAt("t_mepc")
    /\ regs' = [regs EXCEPT !.t0 = mepc]
    /\ mepc' = mepc
    /\ HandlerGoto("t_mret")
    /\ UNCHANGED <<stack_mem, g_trap_counter, g_last_mcause, main_pc, main_i, falhas,
                   valor_antes, uart_log, traps_taken, trap_returned>>
    /\ UNCHANGED <<mstatus_MIE, mstatus_MPIE, mie, mtvec, mcause, cpu_pc, trap_insn>>
    /\ UNCHANGED <<plat_vars, dma_vars, npu_vars>>

\* csrrw t0, mepc, x0; addi t0, t0, 4; csrrw x0, mepc, t0
trap_handler_mepc ==
    /\ HandlerAt("t_mepc")
    /\ LET t0 == mepc + 4
       IN  /\ regs' = [regs EXCEPT !.t0 = t0]
           /\ mepc' = t0
    /\ HandlerGoto("t_mret")
    /\ UNCHANGED <<stack_mem, g_trap_counter, g_last_mcause, main_pc, main_i, falhas,
                   valor_antes, uart_log, traps_taken, trap_returned>>
    /\ UNCHANGED <<mstatus_MIE, mstatus_MPIE, mie, mtvec, mcause, cpu_pc, trap_insn>>
    /\ UNCHANGED <<plat_vars, dma_vars, npu_vars>>

\* mret
trap_handler_mret ==
    /\ HandlerAt("t_mret")
    /\ Mret
    /\ trap_returned' = [valid |-> TRUE, epc |-> Top.epc, cause |-> Top.cause,
                         count |-> Top.count]
    /\ UNCHANGED <<regs, stack_mem, g_trap_counter, g_last_mcause, main_pc, main_i, falhas,
                   valor_antes, uart_log, traps_taken>>
    /\ UNCHANGED <<plat_vars, dma_vars, npu_vars>>

\* main runs between traps, at the instruction after the one that trapped.
MainAt(l) == ~InTrap /\ main_pc = l

MainAfter(l) == MainAt(l) /\ cpu_pc = InsnAddr(l) + 4

\* csrrw x0, mtvec, handler; int i; int falhas = 0; i = 0
main_set_mtvec ==
    /\ MainAt("m_mtvec")
    /\ mtvec' = "trap_handler"
    /\ main_i' = 0
    /\ falhas' = 0
    /\ main_pc' = "m_loop_prep"
    /\ UNCHANGED <<regs, stack_mem, g_trap_counter, g_last_mcause, valor_antes, uart_log,
                   traps_taken, trap_returned>>
    /\ UNCHANGED <<mstatus_MIE, mstatus_MPIE, mie, mcause, mepc, cpu_pc, trap_stack, trap_insn>>
    /\ UNCHANGED <<plat_vars, dma_vars, npu_vars>>

\* g_last_mcause = 0; antes = g_trap_counter; then the trapping instruction l
MainPrep(from, l) ==
    /\ MainAt(from)
    /\ g_last_mcause' = 0
    /\ valor_antes' = g_trap_counter
    /\ cpu_pc' = InsnAddr(l)
    /\ main_pc' = l
    /\ trap_returned' = NoTrap
    /\ UNCHANGED <<regs, stack_mem, g_trap_counter, main_i, falhas, uart_log, traps_taken>>
    /\ UNCHANGED <<mstatus_MIE, mstatus_MPIE, mie, mtvec, mcause, mepc, trap_stack, trap_insn>>
    /\ UNCHANGED <<plat_vars, dma_vars, npu_vars>>

MainCheckFrame ==
    /\ UNCHANGED <<regs, stack_mem, g_trap_counter, g_last_mcause, valor_antes, traps_taken,
                   trap_returned>>
    /\ UNCHANGED <<cpu_vars, plat_vars, dma_vars, npu_vars>>

main_loop_prep == MainPrep("m_loop_prep", "m_ecall")

\* the two checks of the loop body, i++, and after the loop the verdict
main_loop_check ==
    /\ MainAfter("m_ecall")
    /\ LET f == falhas + (IF g_trap_counter # valor_antes + 1 THEN 1 ELSE 0)
                       + (IF g_last_mcause # 11 THEN 1 ELSE 0)
       IN  /\ falhas' = f
           /\ main_i' = main_i + 1
           /\ IF main_i + 1 < NumEcalls
              THEN main_pc' = "m_loop_prep" /\ UNCHANGED uart_log
              ELSE IF f = 0
                   THEN main_pc' = "m_ebreak_prep" /\ uart_log' = Append(uart_log, "SUCESSO")
                   ELSE main_pc' = "m_fail" /\ uart_log' = Append(uart_log, "FALHA")
    /\ MainCheckFrame

main_ebreak_prep == MainPrep("m_ebreak_prep", "m_ebreak")

main_ebreak_check ==
    /\ MainAfter("m_ebreak")
    /\ IF g_trap_counter = valor_antes + 1 /\ g_last_mcause = 3
       THEN main_pc' = "m_csr_prep" /\ uart_log' = Append(uart_log, "SUCESSO")
       ELSE main_pc' = "m_fail" /\ uart_log' = Append(uart_log, "FALHA")
    /\ UNCHANGED <<main_i, falhas>>
    /\ MainCheckFrame

main_csr_prep == MainPrep("m_csr_prep", "m_csr")

main_csr_check ==
    /\ MainAfter("m_csr")
    /\ uart_log' = Append(uart_log, IF g_trap_counter = valor_antes + 1 /\ g_last_mcause = 2
                                    THEN "SUCESSO" ELSE "FALHA")
    /\ main_pc' = "m_word_prep"
    /\ UNCHANGED <<main_i, falhas>>
    /\ MainCheckFrame

main_word_prep == MainPrep("m_word_prep", "m_word")

\* the last check, then *halt = 1
main_word_check ==
    /\ MainAfter("m_word")
    /\ uart_log' = Append(uart_log, IF g_trap_counter = valor_antes + 1 /\ g_last_mcause = 2
                                    THEN "SUCESSO" ELSE "FALHA")
    /\ main_pc' = "m_halt"
    /\ UNCHANGED <<main_i, falhas>>
    /\ MainCheckFrame

\* ------------------------------------------------------------------------
\* hal_dma.c, dma_start_async of dma_test.c, and the DMA engine
\* ------------------------------------------------------------------------
\* memory_map.h: the NPU base address 0x90000000 as a signed 32-bit word,
\* and the two write ports the DMA and the store loops target.
NPU_BASE_ADDR == (0 - 1879048192)
NPU_ADDR_FIFO_WEIGHTS == NPU_BASE_ADDR + 16
NPU_ADDR_FIFO_INPUTS == NPU_BASE_ADDR + 20
NpuPorts == {NPU_ADDR_FIFO_WEIGHTS, NPU_ADDR_FIFO_INPUTS}

DmaIdle == [busy |-> FALSE, left |-> 0, src |-> 0, dst |-> 0, fixed |-> FALSE]
NoDmaArgs == [src |-> 0, dst |-> 0, size_words |-> 0, fixed_dst |-> 0]

hal_dma_is_busy == dma_hw.busy

\* A CTRL write with START loads the engine from the registers; with a count
\* of zero there is nothing to move and the engine stays idle. A START while
\* a transfer is in flight is recorded and restarts the engine.
DmaWriteCtrl(cmd) ==
    IF 0 \in cmd
    THEN /\ dma_hw' = [busy |-> dma_regs.CNT > 0, left |-> dma_regs.CNT,
                       src |-> dma_regs.SRC, dst |-> dma_regs.DST, fixed |-> 1 \in cmd]
         /\ dma_overlap' = (dma_overlap \/ dma_hw.busy)
    ELSE UNCHANGED <<dma_hw, dma_overlap>>

\* The engine moves one word.
DmaStep ==
    /\ dma_hw.busy
    /\ ram' = IF dma_hw.dst \in DOMAIN ram /\ dma_hw.src \in DOMAIN ram
              THEN [ram EXCEPT ![dma_hw.dst] = ram[dma_hw.src]]
              ELSE ram
    /\ npu_wr_log' = IF dma_hw.dst \in NpuPorts /\ dma_hw.src \in DOMAIN ram
                      THEN Append(npu_wr_log, [port |-> dma_hw.dst, word |-> ram[dma_hw.src]])
                      ELSE npu_wr_log
    /\ dma_hw' = [dma_hw EXCEPT !.left = @ - 1, !.busy = (dma_hw.left > 1),
                                !.src = @ + 1,
                                !.dst = IF dma_hw.fixed THEN @ ELSE @ + 1]
    /\ UNCHANGED <<dma_regs, dma_pc, dma_args, dma_log, dma_at_call, dma_last_call,
                   dma_calls, dma_overlap>>
    /\ dma_irq' = (dma_irq \/ dma_hw.left <= 1)
    /\ UNCHANGED <<cpu_vars, plic_vars, uart_rx, gpio_irq, clint_msip, timer_vars, app_vars,
                   ghost_vars, g_isr_table>>
    /\ UNCHANGED <<csr_vars, ml_vars, srv_vars, ext_vars, s_use_dma, load_pc, load_args, load_i, load_calls>>

DmaLogged(reg, val) == dma_log' = Append(dma_log, [reg |-> reg, val |-> val, busy |-> dma_hw.busy])

DmaEnter(fn, first) ==
    /\ dma_pc = "idle"
    /\ dma_calls < MaxCalls
    /\ \E s \in SrcArgs, d \in DstArgs, n \in SizeArgs, f \in FixedArgs :
          dma_args' = [src |-> s, dst |-> d, size_words |-> n, fixed_dst |-> f]
    /\ dma_pc' = first
    /\ dma_log' = <<>>
    /\ dma_at_call' = [regs |-> dma_regs, ram |-> ram]
    /\ dma_last_call' = fn
    /\ dma_calls' = dma_calls + 1
    /\ UNCHANGED <<dma_regs, dma_hw, ram, dma_overlap>>
    /\ UNCHANGED <<irq_vars, csr_vars, npu_vars>>

DmaFrame == UNCHANGED <<ram, dma_args, dma_at_call, dma_last_call, dma_calls>>

\* the foreground calls hal_dma_memcpy(src, dst, size_words, fixed_dst)
FgDmaMemcpy == DmaEnter("hal_dma_memcpy", "m_wait1")

hal_dma_memcpy_wait1_not_polled ==
    /\ dma_pc = "m_wait1"
    /\ dma_pc' = "m_src"
    /\ dma_at_call' = [dma_at_call EXCEPT !.ram = ram]
    /\ UNCHANGED <<ram, dma_args, dma_last_call, dma_calls>>
    /\ UNCHANGED <<dma_regs, dma_hw, dma_log, dma_overlap>>
    /\ UNCHANGED <<irq_vars, csr_vars, npu_vars>>

\* while (hal_dma_is_busy());
hal_dma_memcpy_wait1 ==
    /\ dma_pc = "m_wait1"
    /\ ~hal_dma_is_busy
    /\ dma_pc' = "m_src"
    /\ dma_at_call' = [dma_at_call EXCEPT !.ram = ram]
    /\ UNCHANGED <<ram, dma_args, dma_last_call, dma_calls>>
    /\ UNCHANGED <<dma_regs, dma_hw, dma_log, dma_overlap>>
    /\ UNCHANGED <<irq_vars, csr_vars, npu_vars>>

\* DMA->SRC = src;
hal_dma_memcpy_src ==
    /\ dma_pc = "m_src"
    /\ dma_regs' = [dma_regs EXCEPT !.SRC = dma_args.src]
    /\ DmaLogged("SRC", dma_args.src)
    /\ dma_pc' = "m_dst"
    /\ DmaFrame
    /\ UNCHANGED <<dma_hw, dma_overlap>>
    /\ UNCHANGED <<irq_vars, csr_vars, npu_vars>>

\* DMA->DST = dst;
hal_dma_memcpy_dst ==
    /\ dma_pc = "m_dst"
    /\ dma_regs' = [dma_regs EXCEPT !.DST = dma_args.dst]
    /\ DmaLogged("DST", dma_args.dst)
    /\ dma_pc' = "m_cnt"
    /\ DmaFrame
    /\ UNCHANGED <<dma_hw, dma_overlap>>
    /\ UNCHANGED <<irq_vars, csr_vars, npu_vars>>

\* DMA->CNT = size_words;
hal_dma_memcpy_cnt ==
    /\ dma_pc = "m_cnt"
    /\ dma_regs' = [dma_regs EXCEPT !.CNT = dma_args.size_words]
    /\ DmaLogged("CNT", dma_args.size_words)
    /\ dma_pc' = "m_ctrl"
    /\ DmaFrame
    /\ UNCHANGED <<dma_hw, dma_overlap>>
    /\ UNCHANGED <<irq_vars, csr_vars, npu_vars>>

\* cmd = DMA_CTRL_START; if (fixed_dst) cmd |= DMA_CTRL_FIXED_DST; DMA->CTRL = cmd;
hal_dma_memcpy_ctrl ==
    /\ dma_pc = "m_ctrl"
    /\ LET cmd == DMA_CTRL_START \cup
                  (IF dma_args.fixed_dst # 0 THEN DMA_CTRL_FIXED_DST ELSE {})
       IN  /\ DmaWriteCtrl(cmd)
           /\ DmaLogged("CTRL", cmd)
    /\ dma_pc' = "m_wait2"
    /\ DmaFrame
    /\ UNCHANGED dma_regs
    /\ UNCHANGED <<irq_vars, csr_vars, npu_vars>>

hal_dma_memcpy_wait2_not_polled ==
    /\ dma_pc = "m_wait2"
    /\ dma_pc' = "idle"
    /\ DmaFrame
    /\ UNCHANGED <<dma_regs, dma_hw, dma_log, dma_overlap>>
    /\ UNCHANGED <<irq_vars, csr_vars, npu_vars>>

\* while (hal_dma_is_busy()) { nop; nop; nop; }  and return
hal_dma_memcpy_wait2 ==
    /\ dma_pc = "m_wait2"
    /\ ~hal_dma_is_busy
    /\ dma_pc' = "idle"
    /\ DmaFrame
    /\ UNCHANGED <<dma_regs, dma_hw, dma_log, dma_overlap>>
    /\ UNCHANGED <<irq_vars, csr_vars, npu_vars>>

\* the foreground calls dma_start_async(src, dst, count)
FgDmaStartAsync ==
    /\ DmaEnter("dma_start_async", "a_wait")
    /\ dma_args'.fixed_dst = 0

\* while (dma->CTRL & DMA_CTRL_BUSY);
dma_start_async_wait ==
    /\ dma_pc = "a_wait"
    /\ ~dma_hw.busy
    /\ dma_pc' = "a_write"
    /\ DmaFrame
    /\ UNCHANGED <<dma_regs, dma_hw, dma_log, dma_overlap>>
    /\ UNCHANGED <<irq_vars, csr_vars, npu_vars>>

\* dma->SRC = src; dma->DST = dst; dma->CNT = count; dma->CTRL = DMA_CTRL_START; return
dma_start_async_write ==
    /\ dma_pc = "a_write"
    /\ dma_regs' = [SRC |-> dma_args.src, DST |-> dma_args.dst, CNT |-> dma_args.size_words]
    /\ dma_hw' = [busy |-> dma_args.size_words > 0, left |-> dma_args.size_words,
                  src |-> dma_args.src, dst |-> dma_args.dst, fixed |-> FALSE]
    /\ dma_overlap' = (dma_overlap \/ dma_hw.busy)
    /\ dma_log' = dma_log \o
            << [reg |-> "SRC", val |-> dma_args.src, busy |-> dma_hw.busy],
               [reg |-> "DST", val |-> dma_args.dst, busy |-> dma_hw.busy],
               [reg |-> "CNT", val |-> dma_args.size_words, busy |-> dma_hw.busy],
               [reg |-> "CTRL", val |-> DMA_CTRL_START, busy |-> dma_hw.busy] >>
    /\ dma_pc' = "idle"
    /\ DmaFrame
    /\ UNCHANGED <<irq_vars, csr_vars, npu_vars>>

\* ------------------------------------------------------------------------
\* hal_npu.c: hal_npu_set_dma_enabled, hal_npu_load_weights, hal_npu_load_inputs
\* ------------------------------------------------------------------------
NoLoadArgs == [fn |-> "none", data |-> 0, num_words |-> 0]

LoadPort ==
    IF load_args.fn = "hal_npu_load_weights" THEN NPU_ADDR_FIFO_WEIGHTS
    ELSE NPU_ADDR_FIFO_INPUTS

LoadReset ==
    /\ s_use_dma = FALSE
    /\ load_pc = "idle"
    /\ load_args = NoLoadArgs
    /\ load_i = 0
    /\ load_calls = 0
    /\ npu_wr_log = <<>>

hal_npu_set_dma_enabled(enable) == s_use_dma' = enable

FgSetDmaEnabled ==
    /\ load_pc = "idle"
    /\ \E enable \in BOOLEAN : hal_npu_set_dma_enabled(enable) /\ enable # s_use_dma
    /\ UNCHANGED <<load_pc, load_args, load_i, load_calls, npu_wr_log>>
    /\ UNCHANGED <<irq_vars, csr_vars, ml_vars, srv_vars, ext_vars, dma_vars>>

\* the foreground calls hal_npu_load_weights(data, num_words) or hal_npu_load_inputs
FgNpuLoad ==
    /\ load_pc = "idle" /\ dma_pc = "idle"
    /\ load_calls < MaxCalls
    /\ \E fn \in {"hal_npu_load_weights", "hal_npu_load_inputs"}, d \in SrcArgs, n \in SizeArgs :
          load_args' = [fn |-> fn, data |-> d, num_words |-> n]
    /\ load_pc' = "l_check"
    /\ load_i' = 0
    /\ load_calls' = load_calls + 1
    /\ npu_wr_log' = <<>>
    /\ dma_log' = <<>>
    /\ dma_at_call' = [regs |-> dma_regs, ram |-> ram]
    /\ UNCHANGED <<dma_regs, dma_hw, ram, dma_pc, dma_args, dma_last_call, dma_calls, dma_overlap>>
    /\ UNCHANGED <<s_use_dma, irq_vars, csr_vars, ml_vars, srv_vars, ext_vars>>

hal_npu_load_check_no_zero_test ==
    /\ load_pc = "l_check"
    /\ load_pc' = IF s_use_dma THEN "l_dma" ELSE "l_pio"
    /\ UNCHANGED <<s_use_dma, load_args, load_i, load_calls, npu_wr_log>>
    /\ UNCHANGED <<irq_vars, csr_vars, ml_vars, srv_vars, ext_vars, dma_vars>>

\* if (num_words == 0) return;  if (s_use_dma) ... else ...
hal_npu_load_check ==
    /\ load_pc = "l_check"
    /\ load_pc' = IF load_args.num_words = 0 THEN "l_ret"
                  ELSE IF s_use_dma THEN "l_dma" ELSE "l_pio"
    /\ UNCHANGED <<s_use_dma, load_args, load_i, load_calls, npu_wr_log>>
    /\ UNCHANGED <<irq_vars, csr_vars, ml_vars, srv_vars, ext_vars, dma_vars>>

hal_npu_load_dma_incrementing ==
    /\ load_pc = "l_dma"
    /\ dma_pc = "idle"
    /\ dma_args' = [src |-> load_args.data, dst |-> LoadPort,
                    size_words |-> load_args.num_words, fixed_dst |-> 0]
    /\ dma_pc' = "m_wait1"
    /\ dma_last_call' = "hal_dma_memcpy"
    /\ dma_calls' = dma_calls + 1
    /\ load_pc' = "l_dma_wait"
    /\ UNCHANGED <<dma_regs, dma_hw, ram, dma_log, dma_at_call, dma_overlap>>
    /\ UNCHANGED <<s_use_dma, load_args, load_i, load_calls, npu_wr_log>>
    /\ UNCHANGED <<irq_vars, csr_vars, ml_vars, srv_vars, ext_vars>>

\* hal_dma_memcpy((uint32_t)data, <port>, num_words, 1);
hal_npu_load_dma ==
    /\ load_pc = "l_dma"
    /\ dma_pc = "idle"
    /\ dma_args' = [src |-> load_args.data, dst |-> LoadPort,
                    size_words |-> load_args.num_words, fixed_dst |-> 1]
    /\ dma_pc' = "m_wait1"
    /\ dma_last_call' = "hal_dma_memcpy"
    /\ dma_calls' = dma_calls + 1
    /\ load_pc' = "l_dma_wait"
    /\ UNCHANGED <<dma_regs, dma_hw, ram, dma_log, dma_at_call, dma_overlap>>
    /\ UNCHANGED <<s_use_dma, load_args, load_i, load_calls, npu_wr_log>>
    /\ UNCHANGED <<irq_vars, csr_vars, ml_vars, srv_vars, ext_vars>>

\* hal_dma_memcpy has returned
hal_npu_load_dma_done ==
    /\ load_pc = "l_dma_wait"
    /\ dma_pc = "idle"
    /\ load_pc' = "l_ret"
    /\ UNCHANGED <<s_use_dma, load_args, load_i, load_calls, npu_wr_log>>
    /\ UNCHANGED <<irq_vars, csr_vars, ml_vars, srv_vars, ext_vars, dma_vars>>

\* for (i = 0; i < num_words; i++) *npu_port = data[i];
hal_npu_load_pio ==
    /\ load_pc = "l_pio"
    /\ IF load_i < load_args.num_words
       THEN /\ npu_wr_log' = Append(npu_wr_log,
                                    [port |-> LoadPort, word |-> ram[load_args.data + load_i]])
            /\ load_i' = load_i + 1
            /\ UNCHANGED load_pc
       ELSE /\ load_pc' = "l_ret"
            /\ UNCHANGED <<load_i, npu_wr_log>>
    /\ UNCHANGED <<s_use_dma, load_args, load_calls>>
    /\ UNCHANGED <<irq_vars, csr_vars, ml_vars, srv_vars, ext_vars, dma_vars>>

\* the load function returns to the foreground
hal_npu_load_return ==
    /\ load_pc = "l_ret"
    /\ load_pc' = "idle"
    /\ UNCHANGED <<s_use_dma, load_args, load_i, load_calls, npu_wr_log>>
    /\ UNCHANGED <<irq_vars, csr_vars, ml_vars, srv_vars, ext_vars, dma_vars>>

\* ------------------------------------------------------------------------
\* Devices
\* ------------------------------------------------------------------------
UartReceive ==
    /\ Len(uart_rx) < MaxRx
    /\ \E b \in Bytes : uart_rx' = Append(uart_rx, b)
    /\ UNCHANGED <<cpu_vars, plic_vars, gpio_irq, dma_irq, clint_msip, timer_vars, app_vars, ghost_vars, g_isr_table>>
    /\ UNCHANGED <<csr_vars, dma_vars, npu_vars>>

GpioChange ==
    /\ gpio_irq' = ~gpio_irq
    /\ UNCHANGED <<cpu_vars, plic_vars, uart_rx, dma_irq, clint_msip, timer_vars, app_vars, ghost_vars,
                   g_isr_table>>
    /\ UNCHANGED <<csr_vars, dma_vars, npu_vars>>

\* ------------------------------------------------------------------------
\* Specifications
\* ------------------------------------------------------------------------
\* test_csr.c before main reaches TEST 2; the registers hold what the
\* start-up code left in them.
CsrReset(vals) ==
    /\ regs \in { [t0 |-> a, t1 |-> b, t2 |-> c, sp |-> top] :
                    a \in vals, b \in vals, c \in vals, top \in StackTops }
    /\ stack_mem = [a \in StackAddrs |-> 0]
    /\ g_trap_counter = 0
    /\ g_last_mcause = 0
    /\ main_pc = "m_mtvec"
    /\ main_i = 0
    /\ falhas = 0
    /\ valor_antes = 0
    /\ uart_log = <<>>
    /\ traps_taken = 0
    /\ trap_returned = NoTrap

\* The DMA engine after reset: idle, registers zero.
DmaReset ==
    /\ dma_regs = [SRC |-> 0, DST |-> 0, CNT |-> 0]
    /\ dma_hw = DmaIdle
    /\ ram = [a \in 0..(MemWords - 1) |-> a + 1]
    /\ dma_pc = "idle"
    /\ dma_args = NoDmaArgs
    /\ dma_log = <<>>
    /\ dma_at_call = [regs |-> [SRC |-> 0, DST |-> 0, CNT |-> 0],
                      ram |-> [a \in 0..(MemWords - 1) |-> a + 1]]
    /\ dma_last_call = "none"
    /\ dma_calls = 0
    /\ dma_overlap = FALSE

\* ------------------------------------------------------------------------
\* npu_lib.c and tiny_ml.c: one dense layer tiled over the 4x4 array
\* ------------------------------------------------------------------------
Lanes == 0..(TILE - 1)

clamp_i8(x) == IF x > 127 THEN 127 ELSE IF x < -128 THEN -128 ELSE x

\* The low byte of a word, and the int8_t a byte is stored as.
ByteOf(x) == x % 256
AsInt8(b) == IF b >= 128 THEN b - 256 ELSE b

\* x >> n on a signed 32-bit value.
ShiftRight(x, n) == x \div (2 ^ n)

\* arr[idx] of a C array held as a sequence; a read past the end yields a
\* word that is not the array's, here 1.
ReadAt(arr, idx) == IF (idx + 1) \in DOMAIN arr THEN arr[idx + 1] ELSE 1

PatSeq(pat, n) == [i \in 1..n |-> pat[((i - 1) % Len(pat)) + 1]]

NoLayer ==
    [weights |-> <<>>, bias |-> <<>>, in_features |-> 0, out_neurons |-> 0,
     output_shift |-> 0, output_mult |-> 0, use_relu |-> 0]

\* tiling_test.c: the two layers of the XOR network.
l1 ==
    [weights |-> <<1, 1, 1, 1, 0, 0, 0, 0>>, bias |-> <<0, -20, 0, 0>>,
     in_features |-> 2, out_neurons |-> 4,
     output_shift |-> 0, output_mult |-> 1, use_relu |-> 1]

l2 ==
    [weights |-> <<3, -6, 0, 0>>, bias |-> <<0>>,
     in_features |-> 4, out_neurons |-> 1,
     output_shift |-> 0, output_mult |-> 1, use_relu |-> 0]

XorCases == << <<0, 0>>, <<0, 1>>, <<1, 0>>, <<1, 1>> >>

\* Layers and inputs the layer function is called with.
WeightPats == { <<1>>, <<3, -6>>, <<10, -10, 10>> }
InputPats == { <<20>>, <<0, 20>>, <<-7, 20, 5>> }
BiasPats == { <<0>>, <<-100, 20>> }
QuantSet == { [shift |-> 0, mult |-> 1, relu |-> 0],
              [shift |-> 0, mult |-> 1, relu |-> 1],
              [shift |-> 1, mult |-> 3, relu |-> 0] }

ZeroLanes == [k \in Lanes |-> 0]
ZeroTile == [row \in Lanes |-> ZeroLanes]

\* npu_reset_system: hal_npu_config(0, 0, 1), the four bias words zero,
\* current_flags zero.
LibCfgReset == [shift |-> 0, mult |-> 1, bias |-> ZeroLanes, current_flags |-> {}]

MlReset ==
    /\ ml_pc = "idle"
    /\ ml_layer = NoLayer
    /\ ml_input = <<>>
    /\ ml_output = <<>>
    /\ ml_wr = <<>>
    /\ out_grp = 0
    /\ in_grp = 0
    /\ acc = ZeroLanes
    /\ w_chunk = ZeroTile
    /\ v_in = ZeroLanes
    /\ res = ZeroLanes
    /\ lib_cfg = LibCfgReset
    /\ npu_tile = ZeroTile
    /\ lib_log = <<>>
    /\ tile_log = <<>>
    /\ ml_reads = {}
    /\ xor_pc = "idle"
    /\ xor_i = 0
    /\ xor_log = <<>>

\* The caller's output array holds whole groups of TILE elements.
OutCap(out_neurons) == ((out_neurons + TILE - 1) \div TILE) * TILE

\* The caller's frame: the arguments, the output array, nothing read or stored yet.
MlCall(layer, input) ==
    /\ ml_pc' = "l_cfg"
    /\ ml_layer' = layer
    /\ ml_input' = input
    /\ ml_output' = [j \in 1..OutCap(layer.out_neurons) |-> 0]
    /\ ml_wr' = [j \in 1..OutCap(layer.out_neurons) |-> 0]
    /\ out_grp' = 0
    /\ in_grp' = 0
    /\ acc' = ZeroLanes
    /\ w_chunk' = ZeroTile
    /\ v_in' = ZeroLanes
    /\ res' = ZeroLanes
    /\ lib_log' = <<>>
    /\ tile_log' = <<>>
    /\ ml_reads' = {}

FgRunLayer ==
    /\ ml_pc = "idle"
    /\ xor_pc = "idle"
    /\ xor_i = 0
    /\ \E m \in 1..MaxDim, n \in 1..MaxDim, wp \in WeightPats, ip \in InputPats,
          bp \in BiasPats, q \in QuantSet :
          MlCall([weights |-> PatSeq(wp, m * n), bias |-> PatSeq(bp, m),
                  in_features |-> n, out_neurons |-> m,
                  output_shift |-> q.shift, output_mult |-> q.mult,
                  use_relu |-> q.relu],
                 PatSeq(ip, n))
    /\ UNCHANGED <<lib_cfg, npu_tile, xor_pc, xor_i, xor_log>>
    /\ UNCHANGED ml_others

\* npu_configure(0, 1, zero_bias, 0)
npu_configure(shift, mult, bias, use_relu) ==
    lib_cfg' = [shift |-> shift, mult |-> mult, bias |-> bias,
                current_flags |-> IF use_relu # 0 THEN {"NPU_CTRL_RELU"} ELSE {}]

ml_run_layer_configure ==
    /\ ml_pc = "l_cfg"
    /\ npu_configure(0, 1, ZeroLanes, 0)
    /\ out_grp' = 0
    /\ ml_pc' = "l_out"
    /\ UNCHANGED <<ml_layer, ml_input, ml_output, ml_wr, in_grp, acc, w_chunk, v_in, res,
                   npu_tile, lib_log, tile_log, ml_reads, xor_pc, xor_i, xor_log>>
    /\ UNCHANGED ml_others

\* The head of the loop over output groups: the accumulators start from the
\* bias of the real neurons, or the loop ends.
ml_run_layer_out_loop ==
    /\ ml_pc = "l_out"
    /\ IF out_grp < ml_layer.out_neurons
       THEN /\ acc' = [k \in Lanes |->
                         IF out_grp + k < ml_layer.out_neurons
                         THEN ReadAt(ml_layer.bias, out_grp + k)
                         ELSE 0]
            /\ ml_reads' = ml_reads \cup
                 { [arr |-> "bias", idx |-> out_grp + k] :
                     k \in { x \in Lanes : out_grp + x < ml_layer.out_neurons } }
            /\ in_grp' = 0
            /\ ml_pc' = "l_in"
       ELSE /\ ml_pc' = "l_ret"
            /\ UNCHANGED <<acc, ml_reads, in_grp>>
    /\ UNCHANGED <<ml_layer, ml_input, ml_output, ml_wr, out_grp, w_chunk, v_in, res,
                   lib_cfg, npu_tile, lib_log, tile_log, xor_pc, xor_i, xor_log>>
    /\ UNCHANGED ml_others

\* The test of the feature index alone.
w_chunk_in_layer_rows_only(row, col) ==
    in_grp + row < ml_layer.in_features

\* The entry of the weight tile at (row, col) lies inside the layer.
w_chunk_in_layer(row, col) ==
    /\ out_grp + col < ml_layer.out_neurons
    /\ in_grp + row < ml_layer.in_features

\* The layout read without the transpose.
w_chunk_index_untransposed(row, col) ==
    (out_grp + row) * ml_layer.in_features + (in_grp + col)

\* The index of the weight the tile entry (row, col) is read from.
w_chunk_index(row, col) == (out_grp + col) * ml_layer.in_features + (in_grp + row)

\* The head of the loop over input groups, and the assembly of the tile.
ml_run_layer_in_loop ==
    /\ ml_pc = "l_in"
    /\ IF in_grp < ml_layer.in_features
       THEN /\ w_chunk' = [row \in Lanes |-> [col \in Lanes |->
                              IF w_chunk_in_layer(row, col)
                              THEN ReadAt(ml_layer.weights, w_chunk_index(row, col))
                              ELSE 0]]
            /\ ml_reads' = ml_reads \cup
                 { [arr |-> "weights", idx |-> w_chunk_index(rc[1], rc[2])] :
                     rc \in { x \in Lanes \X Lanes : w_chunk_in_layer(x[1], x[2]) } }
            /\ ml_pc' = "l_load"
       ELSE /\ ml_pc' = "l_post"
            /\ UNCHANGED <<w_chunk, ml_reads>>
    /\ UNCHANGED <<ml_layer, ml_input, ml_output, ml_wr, out_grp, in_grp, acc, v_in, res,
                   lib_cfg, npu_tile, lib_log, tile_log, xor_pc, xor_i, xor_log>>
    /\ UNCHANGED ml_others

\* npu_load_weights(&w_chunk): the four rows go to the array.
npu_load_weights ==
    /\ ml_pc = "l_load"
    /\ npu_tile' = w_chunk
    /\ lib_log' = Append(lib_log, "npu_load_weights")
    /\ ml_pc' = "l_vin"
    /\ UNCHANGED <<ml_layer, ml_input, ml_output, ml_wr, out_grp, in_grp, acc, w_chunk, v_in,
                   res, lib_cfg, tile_log, ml_reads, xor_pc, xor_i, xor_log>>
    /\ UNCHANGED ml_others

\* The input lane k lies inside the layer.
v_in_in_layer(k) == in_grp + k < ml_layer.in_features

ml_run_layer_input ==
    /\ ml_pc = "l_vin"
    /\ v_in' = [k \in Lanes |->
                  IF v_in_in_layer(k) THEN ReadAt(ml_input, in_grp + k) ELSE 0]
    /\ ml_reads' = ml_reads \cup
         { [arr |-> "input", idx |-> in_grp + k] :
             k \in { x \in Lanes : v_in_in_layer(x) } }
    /\ ml_pc' = "l_exec"
    /\ UNCHANGED <<ml_layer, ml_input, ml_output, ml_wr, out_grp, in_grp, acc, w_chunk, res,
                   lib_cfg, npu_tile, lib_log, tile_log, xor_pc, xor_i, xor_log>>
    /\ UNCHANGED ml_others

\* The array: the dot product of the input vector with column col of the
\* loaded tile.
NpuDot(w, v, col) ==
    v[0] * w[0][col] + v[1] * w[1][col] + v[2] * w[2][col] + v[3] * w[3][col]

\* The post-processing of one lane: bias, multiplier, shift, ReLU, saturation
\* to a signed byte.
NpuLane(w, v, col) ==
    LET scaled == ShiftRight((NpuDot(w, v, col) + lib_cfg.bias[col]) * lib_cfg.mult,
                             lib_cfg.shift)
        act == IF "NPU_CTRL_RELU" \in lib_cfg.current_flags /\ scaled < 0 THEN 0 ELSE scaled
    IN clamp_i8(act)

\* The output word: four bytes, byte 0 is lane 0.
NpuReadOutput(w, v) == [k \in Lanes |-> ByteOf(NpuLane(w, v, k))]

\* The lane of the vec4_t that npu_execute returns: (raw >> 8k) & 0xFF stored
\* in an int8_t.
npu_execute_lane(raw, k) == AsInt8(raw[k])

npu_execute ==
    /\ ml_pc = "l_exec"
    /\ res' = [k \in Lanes |-> npu_execute_lane(NpuReadOutput(npu_tile, v_in), k)]
    /\ lib_log' = Append(lib_log, "npu_execute")
    /\ ml_pc' = "l_acc"
    /\ UNCHANGED <<ml_layer, ml_input, ml_output, ml_wr, out_grp, in_grp, acc, w_chunk, v_in,
                   lib_cfg, npu_tile, tile_log, ml_reads, xor_pc, xor_i, xor_log>>
    /\ UNCHANGED ml_others

ml_run_layer_accumulate ==
    /\ ml_pc = "l_acc"
    /\ acc' = [k \in Lanes |-> acc[k] + res[k]]
    /\ tile_log' = Append(tile_log, [og |-> out_grp, ig |-> in_grp, w |-> w_chunk,
                                     v |-> v_in, added |-> res])
    /\ in_grp' = in_grp + TILE
    /\ ml_pc' = "l_in"
    /\ UNCHANGED <<ml_layer, ml_input, ml_output, ml_wr, out_grp, w_chunk, v_in, res,
                   lib_cfg, npu_tile, lib_log, ml_reads, xor_pc, xor_i, xor_log>>
    /\ UNCHANGED ml_others

\* Quantisation, ReLU and saturation of one accumulator.
PostProcess(a) ==
    LET shifted == ShiftRight(a * ml_layer.output_mult, ml_layer.output_shift)
    IN clamp_i8(IF ml_layer.use_relu # 0 /\ shifted < 0 THEN 0 ELSE shifted)

\* Variant: every lane of the group is stored.
ml_run_layer_post_unguarded ==
    /\ ml_pc = "l_post"
    /\ ml_output' = [j \in DOMAIN ml_output |->
                       IF j - 1 \in out_grp..(out_grp + TILE - 1)
                       THEN PostProcess(acc[j - 1 - out_grp])
                       ELSE ml_output[j]]
    /\ ml_wr' = [j \in DOMAIN ml_wr |->
                   IF j - 1 \in out_grp..(out_grp + TILE - 1) THEN ml_wr[j] + 1 ELSE ml_wr[j]]
    /\ out_grp' = out_grp + TILE
    /\ ml_pc' = "l_out"
    /\ UNCHANGED <<ml_layer, ml_input, in_grp, acc, w_chunk, v_in, res,
                   lib_cfg, npu_tile, lib_log, tile_log, ml_reads, xor_pc, xor_i, xor_log>>
    /\ UNCHANGED ml_others

\* for (k < 4) if (out_grp + k < layer->out_neurons) output[out_grp + k] = clamp_i8(...)
ml_run_layer_post ==
    /\ ml_pc = "l_post"
    /\ ml_output' = [j \in DOMAIN ml_output |->
                       IF j - 1 \in out_grp..(out_grp + TILE - 1)
                          /\ j - 1 < ml_layer.out_neurons
                       THEN PostProcess(acc[j - 1 - out_grp])
                       ELSE ml_output[j]]
    /\ ml_wr' = [j \in DOMAIN ml_wr |->
                   IF j - 1 \in out_grp..(out_grp + TILE - 1) /\ j - 1 < ml_layer.out_neurons
                   THEN ml_wr[j] + 1 ELSE ml_wr[j]]
    /\ out_grp' = out_grp + TILE
    /\ ml_pc' = "l_out"
    /\ UNCHANGED <<ml_layer, ml_input, in_grp, acc, w_chunk, v_in, res,
                   lib_cfg, npu_tile, lib_log, tile_log, ml_reads, xor_pc, xor_i, xor_log>>
    /\ UNCHANGED ml_others

\* The frame of the call is dropped.
MlDrop ==
    /\ ml_pc' = "idle"
    /\ ml_layer' = NoLayer
    /\ ml_input' = <<>>
    /\ ml_output' = <<>>
    /\ ml_wr' = <<>>
    /\ out_grp' = 0
    /\ in_grp' = 0
    /\ acc' = ZeroLanes
    /\ w_chunk' = ZeroTile
    /\ v_in' = ZeroLanes
    /\ res' = ZeroLanes
    /\ npu_tile' = ZeroTile
    /\ lib_log' = <<>>
    /\ tile_log' = <<>>
    /\ ml_reads' = {}

ml_run_layer_return ==
    /\ ml_pc = "l_ret"
    /\ xor_pc = "idle"
    /\ MlDrop
    /\ UNCHANGED <<lib_cfg, xor_pc, xor_i, xor_log>>
    /\ UNCHANGED ml_others

\* tiling_test.c main: case i runs layer 1 on the two inputs, 0 or 20 each,
\* layer 2 on the hidden values, and compares the output with 30.
XorInput(i) ==
    << IF XorCases[i + 1][1] # 0 THEN 20 ELSE 0,
       IF XorCases[i + 1][2] # 0 THEN 20 ELSE 0, 0, 0 >>

main_run_l1 ==
    /\ xor_pc = "idle"
    /\ ml_pc = "idle"
    /\ xor_i < Len(XorCases)
    /\ MlCall(l1, XorInput(xor_i))
    /\ xor_pc' = "l1"
    /\ UNCHANGED <<lib_cfg, npu_tile, xor_i, xor_log>>
    /\ UNCHANGED ml_others

main_run_l2 ==
    /\ xor_pc = "l1"
    /\ ml_pc = "l_ret"
    /\ MlCall(l2, ml_output)
    /\ xor_pc' = "l2"
    /\ UNCHANGED <<lib_cfg, npu_tile, xor_i, xor_log>>
    /\ UNCHANGED ml_others

main_validate ==
    /\ xor_pc = "l2"
    /\ ml_pc = "l_ret"
    /\ xor_log' = Append(xor_log, [inputs |-> XorCases[xor_i + 1],
                                   val |-> ml_output[1],
                                   logic_detected |-> IF ml_output[1] > 30 THEN 1 ELSE 0])
    /\ xor_i' = xor_i + 1
    /\ xor_pc' = "idle"
    /\ MlDrop
    /\ UNCHANGED lib_cfg
    /\ UNCHANGED ml_others

\* ------------------------------------------------------------------------
\* The command servers: apps/npu_server.c, apps/mlp_server.c and the
\* interrupt-driven server/npu_server.c, with the NPU they drive
\* ------------------------------------------------------------------------
MAX_STORED_WEIGHTS_BYTES == 180 * 1024

\* What the host sends: depths, byte totals, tile counts, layer counts, neurons.
HostK == {0, 1, MAX_K_DIM + 1}
HostBytes == {0, 4, MAX_STORED_WEIGHTS_BYTES + 4}
HostTiles == {0, 2, RESULTS_LEN + 1}
HostLayers == 0..2
HostOut == 0..2
HostStride == {4}

\* The capacity of each buffer, in the unit its server counts in.
BufCap ==
    [buffer_weights |-> MAX_K_DIM,
     buffer_inputs |-> MAX_K_DIM,
     g_weight_store |-> MAX_STORED_WEIGHTS_BYTES,
     g_bias_store |-> 1024 * 4,
     buffer_A |-> 2048 * 4,
     ping_pong |-> 2048,
     results |-> RESULTS_LEN]

Buffers == DOMAIN BufCap

\* A fill of n units from the start of buffer b.
Fill(b, n) == buf_max' = [buf_max EXCEPT ![b] = Max(buf_max[b], n)]

SrvReset ==
    /\ srv_image = "none"
    /\ srv_pc = "off"
    /\ srv_cmds = 0
    /\ npu_state = "IDLE"
    /\ npu_config = 0
    /\ npu_irq = "none"
    /\ g_npu_done = FALSE
    /\ done_fresh = FALSE
    /\ observed = FALSE
    /\ current_k = 0
    /\ g_tiling = [num_tiles |-> 1, k_dim |-> 0, stride_bytes |-> 0]
    /\ srv_loops = 0
    /\ srv_i = 0
    /\ mlp_layers = 0
    /\ mlp_l = 0
    /\ mlp_hdr = [n_in_words |-> 0, n_out |-> 0]
    /\ mlp_o = 0
    /\ buf_max = [b \in Buffers |-> 0]
    /\ cfg_writes = {}
    /\ npu_starts = {}
    /\ out_reads = {}

\* The NPU: IDLE --START--> BUSY --> DONE --START--> BUSY.  A START clears
\* DONE; the end of a run raises the NPU interrupt once.
NpuStart ==
    /\ npu_state' = "BUSY"
    /\ npu_irq' = IF npu_irq = "none" THEN "none" ELSE "stale"
    /\ npu_starts' = npu_starts \cup {[busy |-> npu_state = "BUSY", k |-> npu_config]}
    /\ done_fresh' = FALSE
    /\ observed' = FALSE

NpuFinish ==
    /\ npu_state = "BUSY"
    /\ npu_state' = "DONE"
    /\ npu_irq' = IF srv_image = "irq" THEN "fresh" ELSE npu_irq
    /\ UNCHANGED <<srv_image, srv_pc, srv_cmds, npu_config, g_npu_done, done_fresh,
                   observed, current_k, g_tiling, srv_loops, srv_i, mlp_layers,
                   mlp_l, mlp_hdr, mlp_o, buf_max, cfg_writes, npu_starts, out_reads>>
    /\ UNCHANGED srv_others

\* A read of the OUT port.
NpuReadOut ==
    out_reads' = out_reads \cup {[observed |-> observed, state |-> npu_state]}

\* server/npu_server.c: the dispatcher claims the NPU source, calls npu_isr
\* and completes; the foreground resumes where it was.
npu_isr ==
    /\ srv_image = "irq"
    /\ npu_irq # "none"
    /\ g_npu_done' = TRUE
    /\ done_fresh' = (npu_irq = "fresh")
    /\ npu_irq' = "none"
    /\ UNCHANGED <<srv_image, srv_pc, srv_cmds, npu_state, npu_config, observed,
                   current_k, g_tiling, srv_loops, srv_i, mlp_layers, mlp_l,
                   mlp_hdr, mlp_o, buf_max, cfg_writes, npu_starts, out_reads>>
    /\ UNCHANGED srv_others

\* hal_npu.c: hal_npu_configure writes CONFIG, then the quantisation registers.
hal_npu_configure(k_dim) ==
    /\ npu_config' = k_dim
    /\ cfg_writes' = cfg_writes \cup {k_dim}

\* main before the command loop of each server.
SrvBoot ==
    /\ srv_image = "none"
    /\ srv_image' \in {"apps", "mlp", "irq"}
    /\ srv_pc' = "idle"
    /\ s_use_dma' = TRUE
    /\ UNCHANGED <<srv_cmds, npu_state, npu_config, npu_irq, g_npu_done, done_fresh,
                   observed, current_k, g_tiling, srv_loops, srv_i, mlp_layers,
                   mlp_l, mlp_hdr, mlp_o, buf_max, cfg_writes, npu_starts, out_reads>>
    /\ UNCHANGED <<irq_vars, csr_vars, dma_vars, load_rest, ml_vars, ext_vars>>

\* A command byte arrives at the idle server.
SrvCmd(image) ==
    /\ srv_image = image
    /\ srv_pc = "idle"
    /\ srv_cmds < MaxCmds
    /\ srv_cmds' = srv_cmds + 1

\* --- apps/npu_server.c -------------------------------------------------
apps_cmd_W ==
    /\ SrvCmd("apps")
    /\ \E host_k \in HostK :
         LET k == IF host_k > MAX_K_DIM THEN MAX_K_DIM ELSE host_k
         IN /\ current_k' = k
            /\ Fill("buffer_weights", k)
    /\ UNCHANGED <<srv_image, srv_pc, npu_state, npu_config, npu_irq, g_npu_done,
                   done_fresh, observed, g_tiling, srv_loops, srv_i, mlp_layers,
                   mlp_l, mlp_hdr, mlp_o, cfg_writes, npu_starts, out_reads>>
    /\ UNCHANGED srv_others

apps_cmd_I ==
    /\ SrvCmd("apps")
    /\ \E host_k \in HostK :
         LET k == IF host_k > MAX_K_DIM THEN MAX_K_DIM ELSE host_k
         IN /\ current_k' = k
            /\ Fill("buffer_inputs", k)
    /\ UNCHANGED <<srv_image, srv_pc, npu_state, npu_config, npu_irq, g_npu_done,
                   done_fresh, observed, g_tiling, srv_loops, srv_i, mlp_layers,
                   mlp_l, mlp_hdr, mlp_o, cfg_writes, npu_starts, out_reads>>
    /\ UNCHANGED srv_others

\* Command B up to the first START: configure, the CPU reference, the loads
\* of the programmed-I/O pass.
apps_cmd_B ==
    /\ SrvCmd("apps")
    /\ hal_npu_configure(current_k)
    /\ s_use_dma' = FALSE
    /\ srv_pc' = "b_pio_start"
    /\ UNCHANGED <<srv_image, npu_state, npu_irq, g_npu_done, done_fresh, observed,
                   current_k, g_tiling, srv_loops, srv_i, mlp_layers, mlp_l, mlp_hdr,
                   mlp_o, buf_max, npu_starts, out_reads>>
    /\ UNCHANGED <<irq_vars, csr_vars, dma_vars, load_rest, ml_vars, ext_vars>>

apps_B_pio_start ==
    /\ srv_pc = "b_pio_start"
    /\ NpuStart
    /\ srv_pc' = "b_pio_wait"
    /\ UNCHANGED <<srv_image, srv_cmds, npu_config, g_npu_done, current_k, g_tiling,
                   srv_loops, srv_i, mlp_layers, mlp_l, mlp_hdr, mlp_o, buf_max,
                   cfg_writes, out_reads>>
    /\ UNCHANGED srv_others

\* hal_npu_wait_done returns, then the loads of the DMA pass.
apps_B_pio_wait ==
    /\ srv_pc = "b_pio_wait"
    /\ npu_state = "DONE"
    /\ observed' = TRUE
    /\ s_use_dma' = TRUE
    /\ srv_pc' = "b_dma_start"
    /\ UNCHANGED <<srv_image, srv_cmds, npu_state, npu_config, npu_irq, g_npu_done,
                   done_fresh, current_k, g_tiling, srv_loops, srv_i, mlp_layers,
                   mlp_l, mlp_hdr, mlp_o, buf_max, cfg_writes, npu_starts, out_reads>>
    /\ UNCHANGED <<irq_vars, csr_vars, dma_vars, load_rest, ml_vars, ext_vars>>

apps_B_dma_start ==
    /\ srv_pc = "b_dma_start"
    /\ NpuStart
    /\ srv_pc' = "b_dma_wait"
    /\ UNCHANGED <<srv_image, srv_cmds, npu_config, g_npu_done, current_k, g_tiling,
                   srv_loops, srv_i, mlp_layers, mlp_l, mlp_hdr, mlp_o, buf_max,
                   cfg_writes, out_reads>>
    /\ UNCHANGED srv_others

apps_B_dma_wait ==
    /\ srv_pc = "b_dma_wait"
    /\ npu_state = "DONE"
    /\ observed' = TRUE
    /\ srv_pc' = "b_read_out"
    /\ UNCHANGED <<srv_image, srv_cmds, npu_state, npu_config, npu_irq, g_npu_done,
                   done_fresh, current_k, g_tiling, srv_loops, srv_i, mlp_layers,
                   mlp_l, mlp_hdr, mlp_o, buf_max, cfg_writes, npu_starts, out_reads>>
    /\ UNCHANGED srv_others

apps_B_read_out ==
    /\ srv_pc = "b_read_out"
    /\ NpuReadOut
    /\ srv_pc' = "idle"
    /\ UNCHANGED <<srv_image, srv_cmds, npu_state, npu_config, npu_irq, g_npu_done,
                   done_fresh, observed, current_k, g_tiling, srv_loops, srv_i,
                   mlp_layers, mlp_l, mlp_hdr, mlp_o, buf_max, cfg_writes, npu_starts>>
    /\ UNCHANGED srv_others

\* --- apps/mlp_server.c -------------------------------------------------
\* Commands L, B and I: a byte total, cut to the size of the store.
mlp_cmd_load ==
    /\ SrvCmd("mlp")
    /\ \E b \in {"g_weight_store", "g_bias_store", "buffer_A"}, host_total \in HostBytes :
         LET total == IF host_total > BufCap[b] THEN BufCap[b] ELSE host_total
         IN Fill(b, total)
    /\ UNCHANGED <<srv_image, srv_pc, npu_state, npu_config, npu_irq, g_npu_done,
                   done_fresh, observed, current_k, g_tiling, srv_loops, srv_i,
                   mlp_layers, mlp_l, mlp_hdr, mlp_o, cfg_writes, npu_starts, out_reads>>
    /\ UNCHANGED srv_others

mlp_cmd_R ==
    /\ SrvCmd("mlp")
    /\ mlp_layers' \in HostLayers
    /\ mlp_l' = 0
    /\ srv_pc' = "r_layer"
    /\ UNCHANGED <<srv_image, npu_state, npu_config, npu_irq, g_npu_done, done_fresh,
                   observed, current_k, g_tiling, srv_loops, srv_i, mlp_hdr,
                   mlp_o, buf_max, cfg_writes, npu_starts, out_reads>>
    /\ UNCHANGED srv_others

\* The head of the layer loop: the header of the layer, or the reply.
mlp_R_layer ==
    /\ srv_pc = "r_layer"
    /\ IF mlp_l < mlp_layers
       THEN /\ \E n_in_words \in HostK, n_out \in HostOut :
                 mlp_hdr' = [n_in_words |-> n_in_words, n_out |-> n_out]
            /\ mlp_o' = 0
            /\ srv_pc' = "r_neuron"
       ELSE /\ srv_pc' = "idle"
            /\ UNCHANGED <<mlp_hdr, mlp_o>>
    /\ UNCHANGED <<srv_image, srv_cmds, npu_state, npu_config, npu_irq, g_npu_done,
                   done_fresh, observed, current_k, g_tiling, srv_loops, srv_i,
                   mlp_layers, mlp_l, buf_max, cfg_writes, npu_starts, out_reads>>
    /\ UNCHANGED srv_others

\* The head of the neuron loop: init, configure, the two loads, the bias; or
\* the end of the layer, where the buffers swap.
mlp_R_neuron ==
    /\ srv_pc = "r_neuron"
    /\ IF mlp_o < mlp_hdr.n_out
       THEN /\ hal_npu_configure(mlp_hdr.n_in_words)
            /\ srv_pc' = "r_start"
            /\ UNCHANGED mlp_l
       ELSE /\ mlp_l' = mlp_l + 1
            /\ srv_pc' = "r_layer"
            /\ UNCHANGED <<npu_config, cfg_writes>>
    /\ UNCHANGED <<srv_image, srv_cmds, npu_state, npu_irq, g_npu_done, done_fresh,
                   observed, current_k, g_tiling, srv_loops, srv_i, mlp_layers,
                   mlp_hdr, mlp_o, buf_max, npu_starts, out_reads>>
    /\ UNCHANGED srv_others

mlp_R_start ==
    /\ srv_pc = "r_start"
    /\ NpuStart
    /\ srv_pc' = "r_wait"
    /\ UNCHANGED <<srv_image, srv_cmds, npu_config, g_npu_done, current_k, g_tiling,
                   srv_loops, srv_i, mlp_layers, mlp_l, mlp_hdr, mlp_o, buf_max,
                   cfg_writes, out_reads>>
    /\ UNCHANGED srv_others

mlp_R_wait ==
    /\ srv_pc = "r_wait"
    /\ npu_state = "DONE"
    /\ observed' = TRUE
    /\ srv_pc' = "r_drain"
    /\ UNCHANGED <<srv_image, srv_cmds, npu_state, npu_config, npu_irq, g_npu_done,
                   done_fresh, current_k, g_tiling, srv_loops, srv_i, mlp_layers,
                   mlp_l, mlp_hdr, mlp_o, buf_max, cfg_writes, npu_starts, out_reads>>
    /\ UNCHANGED srv_others

\* SYSTOLIC_ROWS reads of OUT, the last one stored in p_out[o].
mlp_R_drain ==
    /\ srv_pc = "r_drain"
    /\ NpuReadOut
    /\ Fill("ping_pong", mlp_o + 1)
    /\ mlp_o' = mlp_o + 1
    /\ srv_pc' = "r_neuron"
    /\ UNCHANGED <<srv_image, srv_cmds, npu_state, npu_config, npu_irq, g_npu_done,
                   done_fresh, observed, current_k, g_tiling, srv_loops, srv_i,
                   mlp_layers, mlp_l, mlp_hdr, cfg_writes, npu_starts>>
    /\ UNCHANGED srv_others

\* --- server/npu_server.c -----------------------------------------------
irq_cmd_L ==
    /\ SrvCmd("irq")
    /\ \E host_total \in HostBytes :
         LET total == IF host_total > MAX_STORED_WEIGHTS_BYTES
                      THEN MAX_STORED_WEIGHTS_BYTES ELSE host_total
         IN Fill("g_weight_store", total)
    /\ UNCHANGED <<srv_image, srv_pc, npu_state, npu_config, npu_irq, g_npu_done,
                   done_fresh, observed, current_k, g_tiling, srv_loops, srv_i,
                   mlp_layers, mlp_l, mlp_hdr, mlp_o, cfg_writes, npu_starts, out_reads>>
    /\ UNCHANGED srv_others

irq_cmd_I ==
    /\ SrvCmd("irq")
    /\ \E host_k \in HostK :
         LET k == IF host_k > MAX_K_DIM THEN MAX_K_DIM ELSE host_k
         IN Fill("buffer_inputs", k)
    /\ UNCHANGED <<srv_image, srv_pc, npu_state, npu_config, npu_irq, g_npu_done,
                   done_fresh, observed, current_k, g_tiling, srv_loops, srv_i,
                   mlp_layers, mlp_l, mlp_hdr, mlp_o, cfg_writes, npu_starts, out_reads>>
    /\ UNCHANGED srv_others

irq_cmd_T ==
    /\ SrvCmd("irq")
    /\ \E num_tiles \in HostTiles, k_dim \in HostK, stride_bytes \in HostStride :
         g_tiling' = [num_tiles |-> num_tiles, k_dim |-> k_dim,
                      stride_bytes |-> stride_bytes]
    /\ UNCHANGED <<srv_image, srv_pc, npu_state, npu_config, npu_irq, g_npu_done,
                   done_fresh, observed, current_k, srv_loops, srv_i, mlp_layers,
                   mlp_l, mlp_hdr, mlp_o, buf_max, cfg_writes, npu_starts, out_reads>>
    /\ UNCHANGED srv_others

\* Command B before the tile loop: loops, configure, the inputs.
irq_cmd_B ==
    /\ SrvCmd("irq")
    /\ srv_loops' = IF g_tiling.num_tiles > RESULTS_LEN THEN RESULTS_LEN
                    ELSE g_tiling.num_tiles
    /\ hal_npu_configure(g_tiling.k_dim)
    /\ srv_i' = 0
    /\ srv_pc' = "t_tile"
    /\ UNCHANGED <<srv_image, npu_state, npu_irq, g_npu_done, done_fresh, observed,
                   current_k, g_tiling, mlp_layers, mlp_l, mlp_hdr, mlp_o,
                   buf_max, npu_starts, out_reads>>
    /\ UNCHANGED srv_others

\* The head of the tile loop: the DMA of k_dim words into buffer_weights,
\* configure and the weights; or the reply.
irq_B_tile ==
    /\ srv_pc = "t_tile"
    /\ IF srv_i < srv_loops
       THEN /\ Fill("buffer_weights", g_tiling.k_dim)
            /\ hal_npu_configure(g_tiling.k_dim)
            /\ srv_pc' = "t_clear"
       ELSE /\ srv_pc' = "idle"
            /\ UNCHANGED <<buf_max, npu_config, cfg_writes>>
    /\ UNCHANGED <<srv_image, srv_cmds, npu_state, npu_irq, g_npu_done, done_fresh,
                   observed, current_k, g_tiling, srv_loops, srv_i, mlp_layers,
                   mlp_l, mlp_hdr, mlp_o, npu_starts, out_reads>>
    /\ UNCHANGED srv_others

\* The flag is left as the last tile set it.
irq_B_clear_flag_omitted ==
    /\ srv_pc = "t_clear"
    /\ srv_pc' = "t_start"
    /\ UNCHANGED <<srv_image, srv_cmds, npu_state, npu_config, npu_irq, g_npu_done,
                   done_fresh, observed, current_k, g_tiling, srv_loops, srv_i,
                   mlp_layers, mlp_l, mlp_hdr, mlp_o, buf_max, cfg_writes, npu_starts,
                   out_reads>>
    /\ UNCHANGED srv_others

\* g_npu_done = false
irq_B_clear_flag ==
    /\ srv_pc = "t_clear"
    /\ g_npu_done' = FALSE
    /\ done_fresh' = FALSE
    /\ srv_pc' = "t_start"
    /\ UNCHANGED <<srv_image, srv_cmds, npu_state, npu_config, npu_irq, observed,
                   current_k, g_tiling, srv_loops, srv_i, mlp_layers, mlp_l,
                   mlp_hdr, mlp_o, buf_max, cfg_writes, npu_starts, out_reads>>
    /\ UNCHANGED srv_others

irq_B_start ==
    /\ srv_pc = "t_start"
    /\ NpuStart
    /\ srv_pc' = "t_wait"
    /\ UNCHANGED <<srv_image, srv_cmds, npu_config, g_npu_done, current_k, g_tiling,
                   srv_loops, srv_i, mlp_layers, mlp_l, mlp_hdr, mlp_o, buf_max,
                   cfg_writes, out_reads>>
    /\ UNCHANGED srv_others

\* while (!g_npu_done) ends.
irq_B_wait ==
    /\ srv_pc = "t_wait"
    /\ g_npu_done
    /\ observed' = done_fresh
    /\ srv_pc' = "t_read_out"
    /\ UNCHANGED <<srv_image, srv_cmds, npu_state, npu_config, npu_irq, g_npu_done,
                   done_fresh, current_k, g_tiling, srv_loops, srv_i, mlp_layers,
                   mlp_l, mlp_hdr, mlp_o, buf_max, cfg_writes, npu_starts, out_reads>>
    /\ UNCHANGED srv_others

\* results[i] = NPU_REG_READ_OUT
irq_B_read_out ==
    /\ srv_pc = "t_read_out"
    /\ NpuReadOut
    /\ Fill("results", srv_i + 1)
    /\ srv_i' = srv_i + 1
    /\ srv_pc' = "t_tile"
    /\ UNCHANGED <<srv_image, srv_cmds, npu_state, npu_config, npu_irq, g_npu_done,
                   done_fresh, observed, current_k, g_tiling, srv_loops,
                   mlp_layers, mlp_l, mlp_hdr, mlp_o, cfg_writes, npu_starts>>
    /\ UNCHANGED srv_others

\* ------------------------------------------------------------------------
\* hal_npu.c: hal_npu_configure with its quantisation parameters
\* ------------------------------------------------------------------------
NPU_FLAG_RELU == {0}
KDims == {0, 1, MAX_K_DIM}
QuantMults == {1, 3}
QuantShifts == {0, 31, 32, 37}
QuantZeros == {0, 255, 511}
Quants == [mult : QuantMults, shift : QuantShifts, zero_point : QuantZeros, relu : BOOLEAN]
NoQuant == [null |-> TRUE]
NoCfgCall == [k_dim |-> 0 - 1, quant |-> NoQuant]

CfgReset ==
    /\ npu_quant_mult = 0
    /\ npu_quant_cfg = 0
    /\ npu_flags = {}
    /\ cfg_call = NoCfgCall

\* The same with the shift written as given, without its 5-bit mask.
hal_npu_configure_quant_unmasked(quant) ==
    IF quant # NoQuant
    THEN /\ npu_quant_mult' = quant.mult
         /\ npu_quant_cfg' = quant.shift + ((quant.zero_point % 256) * 256)
         /\ npu_flags' = IF quant.relu THEN NPU_FLAG_RELU ELSE {}
    ELSE /\ npu_quant_mult' = 1
         /\ npu_quant_cfg' = 0
         /\ npu_flags' = {}

\* if (quant) { QUANT_MULT, QUANT_CFG, FLAGS } else { 1, 0, 0 }
hal_npu_configure_quant(quant) ==
    IF quant # NoQuant
    THEN /\ npu_quant_mult' = quant.mult
         /\ npu_quant_cfg' = (quant.shift % 32) + ((quant.zero_point % 256) * 256)
         /\ npu_flags' = IF quant.relu THEN NPU_FLAG_RELU ELSE {}
    ELSE /\ npu_quant_mult' = 1
         /\ npu_quant_cfg' = 0
         /\ npu_flags' = {}

\* A caller configures the NPU: any depth, any parameters or none.
FgNpuConfigure ==
    \E k_dim \in KDims, quant \in Quants \cup {NoQuant} :
        /\ hal_npu_configure(k_dim)
        /\ hal_npu_configure_quant(quant)
        /\ cfg_call' = [k_dim |-> k_dim, quant |-> quant]
        /\ UNCHANGED <<srv_image, srv_pc, srv_cmds, npu_state, npu_irq, g_npu_done,
                       done_fresh, observed, current_k, g_tiling, srv_loops, srv_i,
                       mlp_layers, mlp_l, mlp_hdr, mlp_o, buf_max, npu_starts, out_reads>>
        /\ UNCHANGED <<irq_vars, csr_vars, dma_vars, load_vars, ml_vars, tmr_vars, wire, uart_vars,
                       echo_vars, dmat, late_vars>>

\* ------------------------------------------------------------------------
\* hal_timer.h: the cycle counter and its snapshot registers
\* ------------------------------------------------------------------------
TIMER_CMD_ENABLE == {0}
TIMER_CMD_RESET == {1}
TIMER_CMD_SNAPSHOT == {2}

\* A 64-bit value as its two halves; the halves count modulo TimerHalf.
TimerZero == [hi |-> 0, lo |-> 0]
TimerVal(c) == (c.hi * TimerHalf) + c.lo
TimerInc(c) == IF c.lo + 1 = TimerHalf
               THEN [hi |-> (c.hi + 1) % TimerHalf, lo |-> 0]
               ELSE [hi |-> c.hi, lo |-> c.lo + 1]
NoTime == 0 - 1
NoPrev == [t |-> NoTime, ran |-> FALSE]

TmrReset ==
    /\ tmr_count = TimerZero
    /\ tmr_enable = FALSE
    /\ tmr_shadow = TimerZero
    /\ tmr_pc = "idle"
    /\ tmr_lo = 0
    /\ tmr_hi = 0
    /\ tmr_ret = NoTime
    /\ tmr_prev = NoPrev
    /\ tmr_seen = {}
    /\ tmr_ran = FALSE


\* A write of the CTRL register: ENABLE is level, RESET and SNAPSHOT are commands.
TimerWriteCtrl(bits) ==
    /\ tmr_enable' = (TIMER_CMD_ENABLE \subseteq bits)
    /\ tmr_count' = IF TIMER_CMD_RESET \subseteq bits THEN TimerZero ELSE tmr_count
    /\ tmr_shadow' = IF TIMER_CMD_SNAPSHOT \subseteq bits THEN tmr_count ELSE tmr_shadow

TIMER_REG_LOW == tmr_shadow.lo

\* The HIGH register as it would read without the shadow: the running counter.
TIMER_REG_HIGH_live == tmr_count.hi
TIMER_REG_HIGH == tmr_shadow.hi

\* The counter advances by one cycle while it is enabled.
TimerCycle ==
    /\ tmr_enable
    /\ TimerVal(tmr_count) < MaxCycles
    /\ tmr_count' = TimerInc(tmr_count)
    /\ tmr_seen' = IF tmr_pc # "idle" THEN tmr_seen \cup {TimerVal(TimerInc(tmr_count))}
                   ELSE tmr_seen
    /\ tmr_ran' = (tmr_ran \/ tmr_pc = "idle")
    /\ UNCHANGED <<tmr_enable, tmr_shadow, tmr_pc, tmr_lo, tmr_hi, tmr_ret, tmr_prev>>
    /\ UNCHANGED tmr_others

hal_timer_reset ==
    /\ tmr_pc = "idle"
    /\ TimerWriteCtrl(TIMER_CMD_RESET)
    /\ tmr_ret' = NoTime
    /\ tmr_prev' = NoPrev
    /\ tmr_ran' = FALSE
    /\ UNCHANGED <<tmr_pc, tmr_lo, tmr_hi, tmr_seen>>
    /\ UNCHANGED tmr_others

hal_timer_start ==
    /\ tmr_pc = "idle"
    /\ TimerWriteCtrl(TIMER_CMD_ENABLE)
    /\ UNCHANGED <<tmr_pc, tmr_lo, tmr_hi, tmr_ret, tmr_prev, tmr_seen, tmr_ran>>
    /\ UNCHANGED tmr_others

hal_timer_stop ==
    /\ tmr_pc = "idle"
    /\ TimerWriteCtrl({})
    /\ UNCHANGED <<tmr_pc, tmr_lo, tmr_hi, tmr_ret, tmr_prev, tmr_seen, tmr_ran>>
    /\ UNCHANGED tmr_others

\* The same call with a CTRL write that leaves the snapshot command out.
FgTimerGetCycles_no_snapshot ==
    /\ tmr_pc = "idle"
    /\ TimerWriteCtrl(TIMER_CMD_ENABLE)
    /\ tmr_seen' = {TimerVal(tmr_count)}
    /\ tmr_pc' = "read_lo"
    /\ UNCHANGED <<tmr_lo, tmr_hi, tmr_ret, tmr_prev, tmr_ran>>
    /\ UNCHANGED tmr_others

\* The same write with the ENABLE bit left out.
hal_timer_get_cycles_ctrl_snapshot_only == TimerWriteCtrl(TIMER_CMD_SNAPSHOT)

\* TIMER_REG_CTRL = TIMER_CMD_ENABLE | TIMER_CMD_SNAPSHOT
hal_timer_get_cycles_ctrl == TimerWriteCtrl(TIMER_CMD_ENABLE \cup TIMER_CMD_SNAPSHOT)

\* hal_timer_get_cycles: the CTRL write that takes the snapshot
FgTimerGetCycles ==
    /\ tmr_pc = "idle"
    /\ hal_timer_get_cycles_ctrl
    /\ tmr_seen' = {TimerVal(tmr_count)}
    /\ tmr_pc' = "read_lo"
    /\ UNCHANGED <<tmr_lo, tmr_hi, tmr_ret, tmr_prev, tmr_ran>>
    /\ UNCHANGED tmr_others

\* uint32_t lo = TIMER_REG_LOW
hal_timer_get_cycles_lo ==
    /\ tmr_pc = "read_lo"
    /\ tmr_lo' = TIMER_REG_LOW
    /\ tmr_pc' = "read_hi"
    /\ UNCHANGED <<tmr_count, tmr_enable, tmr_shadow, tmr_hi, tmr_ret, tmr_prev, tmr_seen,
                   tmr_ran>>
    /\ UNCHANGED tmr_others

\* uint32_t hi = TIMER_REG_HIGH
hal_timer_get_cycles_hi ==
    /\ tmr_pc = "read_hi"
    /\ tmr_hi' = TIMER_REG_HIGH
    /\ tmr_pc' = "return"
    /\ UNCHANGED <<tmr_count, tmr_enable, tmr_shadow, tmr_lo, tmr_ret, tmr_prev, tmr_seen,
                   tmr_ran>>
    /\ UNCHANGED tmr_others

\* return ((uint64_t)hi << 32) | lo
hal_timer_get_cycles_return ==
    /\ tmr_pc = "return"
    /\ tmr_ret' = TimerVal([hi |-> tmr_hi, lo |-> tmr_lo])
    /\ tmr_prev' = IF tmr_ret = NoTime THEN NoPrev ELSE [t |-> tmr_ret, ran |-> tmr_ran]
    /\ tmr_ran' = FALSE
    /\ tmr_pc' = "idle"
    /\ UNCHANGED <<tmr_count, tmr_enable, tmr_shadow, tmr_lo, tmr_hi, tmr_seen>>
    /\ UNCHANGED tmr_others

\* ------------------------------------------------------------------------
\* The servers' UART helpers: 32-bit and 64-bit values on the wire
\* ------------------------------------------------------------------------
\* A 32-bit value as its two 16-bit halves, a 64-bit value as its two words.
Halves == {0, 1, 255, 256, 4660, 43981, 65535}
U32Values == [h : Halves, l : Halves]
U64Values == [hi : [h : {0, 43981}, l : {0, 4660}], lo : [h : {1, 65535}, l : {255, 256}]]
U32(n) == [h |-> n \div 65536, l |-> n % 65536]

\* uint8_t b[] = {val & 0xFF, (val >> 8) & 0xFF, (val >> 16) & 0xFF, (val >> 24) & 0xFF}
\* The same bytes in the opposite order.
uart_write_u32_big_endian(val) ==
    <<(val.h \div 256) % 256, val.h % 256, (val.l \div 256) % 256, val.l % 256>>
uart_write_u32(val) ==
    <<val.l % 256, (val.l \div 256) % 256, val.h % 256, (val.h \div 256) % 256>>

\* b[0] | b[1] << 8 | b[2] << 16 | b[3] << 24
uart_read_u32(b) == [h |-> b[3] + (b[4] * 256), l |-> b[1] + (b[2] * 256)]

\* uart_write_u32((uint32_t)val); uart_write_u32((uint32_t)(val >> 32))
uart_write_u64(val) == uart_write_u32(val.lo) \o uart_write_u32(val.hi)

NoWire == [kind |-> "none", v |-> U32(0), bytes |-> <<>>, back |-> <<>>]

WireReset == wire = NoWire

\* A server sends a 32-bit value.
FgUartWriteU32 ==
    /\ \E val \in U32Values :
           wire' = [kind |-> "u32", v |-> val, bytes |-> uart_write_u32(val), back |-> <<>>]
    /\ UNCHANGED wire_others

\* A server reads the four bytes that were sent.
FgUartReadU32 ==
    /\ wire.kind = "u32"
    /\ wire.back = <<>>
    /\ wire' = [wire EXCEPT !.back = <<uart_read_u32(wire.bytes)>>]
    /\ UNCHANGED wire_others

\* A server sends a 64-bit value.
FgUartWriteU64 ==
    /\ \E val \in U64Values :
           wire' = [kind |-> "u64", v |-> val, bytes |-> uart_write_u64(val), back |-> <<>>]
    /\ UNCHANGED wire_others

\* ------------------------------------------------------------------------
\* The command loops of the three servers, seen from the UART
\* ------------------------------------------------------------------------
\* The characters of the protocol.
Ch == [P |-> 80, C |-> 67, L |-> 76, B |-> 66, I |-> 73, T |-> 84, R |-> 82, W |-> 87,
       K |-> 75, O |-> 79, X |-> 88, bang |-> 33, dot |-> 46]
PayloadByte == 7

\* A 32-bit value as a number; the values of 2^30 and above are all read as 2^30,
\* every comparison in the servers being against a smaller number.
U32Int(val) == IF val.h > 16383 THEN 1073741824 ELSE (val.h * 65536) + val.l

RECURSIVE WriteWords(_)
WriteWords(ws) == IF ws = <<>> THEN <<>>
                  ELSE uart_write_u32(U32(Head(ws))) \o WriteWords(Tail(ws))

\* What the host puts on the line for one command: tag, header words, body bytes.
Encode(c) == <<Ch[c.tag]>> \o WriteWords(c.hdr) \o [i \in 1..c.body |-> PayloadByte]

LayerHdr(n_out) == <<1, n_out, 0, 0, 1, 0, 0, 0>>
RECURSIVE LayerHdrs(_)
LayerHdrs(outs) == IF outs = <<>> THEN <<>>
                   ELSE LayerHdr(Head(outs)) \o LayerHdrs(Tail(outs))
HostRuns == UNION { [1..n -> HostOut] : n \in HostLayers }
HostTotals == 0..MaxBody

\* The commands a host sends to each server: the ones of the protocol table, each
\* with its complete payload, and a byte that is no command.
HostCmds(image) ==
    {[tag |-> "P", hdr |-> <<>>, body |-> 0], [tag |-> "X", hdr |-> <<>>, body |-> 0]}
    \cup
    CASE image = "mlp" ->
             { [tag |-> t, hdr |-> <<n>>, body |-> n] : t \in {"L", "B", "I"}, n \in HostTotals }
             \cup { [tag |-> "R", hdr |-> <<Len(outs)>> \o LayerHdrs(outs), body |-> 0] :
                    outs \in HostRuns }
      [] image = "irq" ->
             { [tag |-> t, hdr |-> <<n>>, body |-> n] : t \in {"L", "I"}, n \in HostTotals }
             \cup { [tag |-> "C", hdr |-> <<1, 0, 1>>, body |-> 0],
                    [tag |-> "T", hdr |-> <<1, 1, 4>>, body |-> 0] }
      [] image = "apps" ->
             { [tag |-> t, hdr |-> <<n>>, body |-> 4 * n] : t \in {"W", "I"}, n \in HostTotals }
             \cup { [tag |-> "C", hdr |-> <<1, 0, 1>>, body |-> 0] }

\* The cases of each server's switch.
KnownTags(image) ==
    CASE image = "mlp" -> {Ch.P, Ch.L, Ch.B, Ch.I, Ch.R}
      [] image = "irq" -> {Ch.C, Ch.L, Ch.I, Ch.T, Ch.B, Ch.P}
      [] image = "apps" -> {Ch.C, Ch.W, Ch.I, Ch.P, Ch.B}
      [] OTHER -> {}

\* The uart_read_u32 calls a case makes before anything else.
HdrWords(tag) == IF tag \in {Ch.C, Ch.T} THEN 3 ELSE 1

NoCmd == [tag |-> 0, fields |-> <<>>, left |-> 0, consumed |-> 0, from |-> 0, target |-> "none"]
NoRun == [l |-> 0, o |-> 0, num_layers |-> 0, n_out |-> 0, final_len |-> 0,
          p_in |-> "buffer_A", p_out |-> "buffer_B", runs |-> <<>>,
          bufs |-> [buffer_A |-> <<>>, buffer_B |-> <<>>], reported |-> "none"]
StoreReset == [ctx |-> <<1, 8, FALSE>>, tiling |-> <<1, 0, 0>>, current_k |-> 0,
               loaded |-> [b \in {"g_weight_store", "g_bias_store", "buffer_A",
                                  "buffer_weights", "buffer_inputs"} |-> 0]]

UartReset ==
    /\ uart_image = "none"
    /\ uart_rxq = <<>>
    /\ uart_txq = <<>>
    /\ cmd_pc = "off"
    /\ cur_cmd = NoCmd
    /\ host_sent = <<>>
    /\ cmd_log = <<>>
    /\ srv_store = StoreReset
    /\ run = NoRun

\* What the command in execution has emitted so far.
CmdOut(txq) == SubSeq(txq, cur_cmd.from + 1, Len(txq))
Logged(txq) == Append(cmd_log, [tag |-> cur_cmd.tag, consumed |-> cur_cmd.consumed, out |-> CmdOut(txq)])

\* main before the loop: the two NPU servers announce themselves with 'B'.
UartBoot ==
    /\ cmd_pc = "off"
    /\ \E image \in {"mlp", "irq", "apps"} :
           /\ uart_image' = image
           /\ uart_txq' = IF image = "mlp" THEN <<>> ELSE <<Ch.B>>
    /\ cmd_pc' = "wait"
    /\ UNCHANGED <<uart_rxq, cur_cmd, host_sent, cmd_log, srv_store, run>>
    /\ UNCHANGED uart_others

\* The host sends one more command, whatever the server is doing.
HostSend ==
    /\ uart_image # "none"
    /\ Len(host_sent) < MaxCmds
    /\ \E c \in HostCmds(uart_image) :
           /\ uart_rxq' = uart_rxq \o Encode(c)
           /\ host_sent' = Append(host_sent, [tag |-> c.tag, payload |-> Len(Encode(c)) - 1,
                                              hdr |-> c.hdr])
    /\ UNCHANGED <<uart_image, uart_txq, cmd_pc, cur_cmd, cmd_log, srv_store, run>>
    /\ UNCHANGED uart_others

\* case 'P': one byte back, 'O' from mlp_server and 'P' from the NPU servers.
cmd_ping(c) ==
    /\ uart_txq' = Append(uart_txq, IF uart_image = "mlp" THEN Ch.O ELSE Ch.P)
    /\ cmd_log' = Append(cmd_log, [tag |-> c, consumed |-> 0,
                                   out |-> <<IF uart_image = "mlp" THEN Ch.O ELSE Ch.P>>])
    /\ UNCHANGED <<cmd_pc, cur_cmd, srv_store, run>>

\* A case that begins with uart_read_u32.
cmd_enter(c) ==
    /\ cur_cmd' = [NoCmd EXCEPT !.tag = c, !.from = Len(uart_txq)]
    /\ cmd_pc' = "hdr"
    /\ UNCHANGED <<uart_txq, cmd_log, srv_store, run>>

\* The same with an answer '?' to the byte.
cmd_default_answers(c) ==
    /\ cmd_log' = Append(cmd_log, [tag |-> c, consumed |-> 0, out |-> <<63>>])
    /\ uart_txq' = Append(uart_txq, 63)
    /\ UNCHANGED <<cmd_pc, cur_cmd, srv_store, run>>

\* default: break (mlp_server has no default: the switch falls through to the loop).
cmd_default(c) ==
    /\ cmd_log' = Append(cmd_log, [tag |-> c, consumed |-> 0, out |-> <<>>])
    /\ UNCHANGED <<uart_txq, cmd_pc, cur_cmd, srv_store, run>>

\* uint8_t cmd = hal_uart_getc(); switch (cmd)
cmd_getc ==
    /\ cmd_pc = "wait"
    /\ uart_rxq # <<>>
    /\ uart_rxq' = Tail(uart_rxq)
    /\ LET c == Head(uart_rxq)
       IN  IF c \notin KnownTags(uart_image) THEN cmd_default(c)
           ELSE IF c = Ch.P THEN cmd_ping(c)
           ELSE cmd_enter(c)
    /\ UNCHANGED <<uart_image, host_sent>>
    /\ UNCHANGED uart_others

\* The bytes a load case reads after its length word.
BodyLen(image, tag, val) ==
    CASE image = "mlp" /\ tag = Ch.L -> Min(U32Int(val), 180 * 1024)
      [] image = "mlp" /\ tag = Ch.B -> Min(U32Int(val), 4 * 1024)
      [] image = "mlp" /\ tag = Ch.I -> Min(U32Int(val), 4 * 2048)
      [] image = "irq" /\ tag = Ch.L -> Min(U32Int(val), MAX_STORED_WEIGHTS_BYTES)
      [] image = "irq" /\ tag = Ch.I -> Min(U32Int(val), MAX_K_DIM) * 4
      [] image = "apps" /\ tag \in {Ch.W, Ch.I} -> Min(U32Int(val), MAX_K_DIM) * 4
      [] OTHER -> 0

BodyTarget(image, tag) ==
    CASE image = "mlp" /\ tag = Ch.L -> "g_weight_store"
      [] image = "mlp" /\ tag = Ch.B -> "g_bias_store"
      [] image = "mlp" /\ tag = Ch.I -> "buffer_A"
      [] image = "irq" /\ tag = Ch.L -> "g_weight_store"
      [] tag = Ch.W -> "buffer_weights"
      [] OTHER -> "buffer_inputs"

\* What a case does once its header words are read.
cmd_header_done(fields) ==
    LET tag == cur_cmd.tag IN
    CASE tag = Ch.C ->
             /\ srv_store' = [srv_store EXCEPT !.ctx = <<U32Int(fields[1]), U32Int(fields[2]),
                                                          U32Int(fields[3]) > 0>>]
             /\ cmd_pc' = "body"
             /\ cur_cmd' = [cur_cmd EXCEPT !.fields = fields, !.consumed = @ + 4]
             /\ UNCHANGED <<uart_txq, run>>
      [] tag = Ch.T ->
             /\ srv_store' = [srv_store EXCEPT !.tiling = <<U32Int(fields[1]), U32Int(fields[2]),
                                                             U32Int(fields[3])>>]
             /\ cmd_pc' = "body"
             /\ cur_cmd' = [cur_cmd EXCEPT !.fields = fields, !.consumed = @ + 4]
             /\ UNCHANGED <<uart_txq, run>>
      [] tag = Ch.R ->
             /\ run' = [NoRun EXCEPT !.num_layers = U32Int(fields[1]), !.bufs = run.bufs]
             /\ cmd_pc' = "r_layer"
             /\ cur_cmd' = [cur_cmd EXCEPT !.fields = fields, !.consumed = @ + 4]
             /\ UNCHANGED <<uart_txq, srv_store>>
      [] tag = Ch.B /\ uart_image # "mlp" ->
             /\ cmd_pc' = "bench"
             /\ cur_cmd' = [cur_cmd EXCEPT !.fields = fields, !.consumed = @ + 4]
             /\ UNCHANGED <<uart_txq, srv_store, run>>
      [] OTHER ->
             /\ srv_store' =
                    [srv_store EXCEPT
                        !.loaded[BodyTarget(uart_image, tag)] = 0,
                        !.current_k = IF uart_image = "apps"
                                      THEN Min(U32Int(fields[1]), MAX_K_DIM) ELSE @]
             /\ cmd_pc' = "body"
             /\ cur_cmd' = [cur_cmd EXCEPT !.fields = fields, !.consumed = @ + 4,
                                   !.left = BodyLen(uart_image, tag, fields[1]),
                                   !.target = BodyTarget(uart_image, tag)]
             /\ UNCHANGED <<uart_txq, run>>

\* uart_read_u32 of a case's header: four bytes, waiting until they are there.
cmd_read_u32 ==
    /\ cmd_pc = "hdr"
    /\ Len(uart_rxq) >= 4
    /\ uart_rxq' = SubSeq(uart_rxq, 5, Len(uart_rxq))
    /\ LET fields == Append(cur_cmd.fields, uart_read_u32(SubSeq(uart_rxq, 1, 4)))
       IN  IF Len(fields) < HdrWords(cur_cmd.tag)
           THEN /\ cur_cmd' = [cur_cmd EXCEPT !.fields = fields, !.consumed = @ + 4]
                /\ UNCHANGED <<uart_txq, cmd_pc, srv_store, run>>
           ELSE cmd_header_done(fields)
    /\ UNCHANGED <<uart_image, host_sent, cmd_log>>
    /\ UNCHANGED uart_others

\* uart_read_bytes: one more byte of the body.
cmd_read_byte ==
    /\ cmd_pc = "body"
    /\ cur_cmd.left > 0
    /\ uart_rxq # <<>>
    /\ uart_rxq' = Tail(uart_rxq)
    /\ cur_cmd' = [cur_cmd EXCEPT !.left = @ - 1, !.consumed = @ + 1]
    /\ srv_store' = [srv_store EXCEPT !.loaded[cur_cmd.target] = @ + 1]
    /\ UNCHANGED <<uart_image, uart_txq, cmd_pc, host_sent, cmd_log, run>>
    /\ UNCHANGED uart_others

\* hal_uart_putc('K'); break
cmd_ack ==
    /\ cmd_pc = "body"
    /\ cur_cmd.left = 0
    /\ uart_txq' = Append(uart_txq, Ch.K)
    /\ cmd_log' = Logged(Append(uart_txq, Ch.K))
    /\ cmd_pc' = "wait"
    /\ cur_cmd' = NoCmd
    /\ UNCHANGED <<uart_image, uart_rxq, host_sent, srv_store, run>>
    /\ UNCHANGED uart_others

\* mlp_server, case 'R': the head of the layer loop, the eight header words, 'L'.
cmdR_layer ==
    /\ cmd_pc = "r_layer"
    /\ run.l < run.num_layers
    /\ Len(uart_rxq) >= 32
    /\ uart_rxq' = SubSeq(uart_rxq, 33, Len(uart_rxq))
    /\ run' = [run EXCEPT !.n_out = U32Int(uart_read_u32(SubSeq(uart_rxq, 5, 8))), !.o = 0]
    /\ cur_cmd' = [cur_cmd EXCEPT !.consumed = @ + 32]
    /\ uart_txq' = Append(uart_txq, Ch.L)
    /\ cmd_pc' = "r_neuron"
    /\ UNCHANGED <<uart_image, host_sent, cmd_log, srv_store>>
    /\ UNCHANGED uart_others

\* The value neuron o of layer l leaves in the output buffer.
NeuronVal(l, o) == (16 * (l + 1)) + o
Store(buf, o, val) == IF o < Len(buf) THEN [buf EXCEPT ![o + 1] = val] ELSE Append(buf, val)

\* case 'R': one neuron: load from p_in, run, p_out[o] = val, '.'.
cmdR_neuron ==
    /\ cmd_pc = "r_neuron"
    /\ run.o < run.n_out
    /\ run' = [run EXCEPT
                  !.bufs[run.p_out] = Store(@, run.o, NeuronVal(run.l, run.o)),
                  !.runs = Append(@, [l |-> run.l, o |-> run.o, in |-> run.p_in,
                                      out |-> run.p_out, sent |-> Len(CmdOut(uart_txq))]),
                  !.o = @ + 1]
    /\ uart_txq' = Append(uart_txq, Ch.dot)
    /\ UNCHANGED <<uart_image, uart_rxq, cmd_pc, cur_cmd, host_sent, cmd_log, srv_store>>
    /\ UNCHANGED uart_others

\* The same without the exchange of the two pointers.
cmdR_swap_omitted ==
    /\ cmd_pc = "r_neuron"
    /\ run.o >= run.n_out
    /\ run' = [run EXCEPT !.final_len = run.n_out, !.l = @ + 1]
    /\ cmd_pc' = "r_layer"
    /\ UNCHANGED <<uart_image, uart_rxq, uart_txq, cur_cmd, host_sent, cmd_log, srv_store>>
    /\ UNCHANGED uart_others

\* case 'R': final_len = n_out; temp = p_in; p_in = p_out; p_out = temp
cmdR_swap ==
    /\ cmd_pc = "r_neuron"
    /\ run.o >= run.n_out
    /\ run' = [run EXCEPT !.final_len = run.n_out, !.p_in = run.p_out, !.p_out = run.p_in,
                          !.l = @ + 1]
    /\ cmd_pc' = "r_layer"
    /\ UNCHANGED <<uart_image, uart_rxq, uart_txq, cur_cmd, host_sent, cmd_log, srv_store>>
    /\ UNCHANGED uart_others

RunCycles == {[hi |-> U32(0), lo |-> U32(5)], [hi |-> U32(1), lo |-> U32(65538)]}

RECURSIVE WriteValues(_)
WriteValues(vals) == IF vals = <<>> THEN <<>>
                     ELSE uart_write_u32(U32(Head(vals))) \o WriteValues(Tail(vals))

\* case 'R': '!', the cycles, final_len and p_in[0 .. final_len - 1].
cmdR_report ==
    /\ cmd_pc = "r_layer"
    /\ run.l >= run.num_layers
    /\ \E cycles \in RunCycles :
           LET txq == uart_txq \o <<Ch.bang>> \o uart_write_u64(cycles)
                        \o uart_write_u32(U32(run.final_len))
                        \o WriteValues(SubSeq(run.bufs[run.p_in], 1, run.final_len))
           IN  /\ uart_txq' = txq
               /\ cmd_log' = Logged(txq)
    /\ run' = [run EXCEPT !.reported = run.p_in]
    /\ cmd_pc' = "wait"
    /\ cur_cmd' = NoCmd
    /\ UNCHANGED <<uart_image, uart_rxq, host_sent, srv_store>>
    /\ UNCHANGED uart_others

\* ------------------------------------------------------------------------
\* tests/plic_test.c: the foreground that reports what the UART handler received
\* ------------------------------------------------------------------------
TypedBytes == {65, 66}

EchoReset ==
    /\ echo_pc = "test"
    /\ echo_c = 0
    /\ echo_typed = <<>>
    /\ echo_out = <<>>

\* The machine after main's setup (hal_irq_init, hal_irq_register, priority 1,
\* enable, global enable) for one source and its handler.
IrqReady(source_id, handler) ==
    /\ mstatus_MIE = TRUE
    /\ mstatus_MPIE = FALSE
    /\ mie = IRQ_M_EXT
    /\ mtvec = "irq_dispatch_handler"
    /\ mcause = MCAUSE_NONE
    /\ mepc = 0
    /\ cpu_pc = 0
    /\ trap_stack = <<>>
    /\ trap_insn = NoInsn
    /\ clint_msip = 0
    /\ clint_mtime = 0
    /\ clint_mtimecmp = TimerNever
    /\ g_software_irq_fired = FALSE
    /\ g_timer_irq_fired = FALSE
    /\ g_mcause_debug = MCAUSE_NONE
    /\ g_isr_table = [i \in TableIds |-> IF i = source_id THEN handler ELSE NULL]
    /\ plic_enable = {source_id}
    /\ plic_priority = [i \in PlicIds |-> IF i = source_id THEN 1 ELSE 0]
    /\ plic_threshold = 0
    /\ plic_claimed = {}
    /\ uart_rx = <<>>
    /\ gpio_irq = FALSE
    /\ dma_irq = FALSE
    /\ g_uart_irq_fired = FALSE
    /\ g_rx_char = 0
    /\ g_dma_done = FALSE
    /\ cc_bal = [i \in PlicIds |-> 0]
    /\ cc_zero_writes = Min(1, CountCap)

EchoFrame ==
    /\ UNCHANGED <<mstatus_MPIE, mie, mtvec, mcause, mepc, cpu_pc, trap_stack, trap_insn>>
    /\ UNCHANGED <<plic_vars, dev_vars, g_rx_char, g_dma_done, clint_app_vars, ghost_vars,
                   g_isr_table>>
    /\ UNCHANGED echo_others

\* A byte is typed: it enters the RX FIFO.
UartType ==
    /\ Len(uart_rx) < MaxRx
    /\ Len(echo_typed) < MaxTyped
    /\ \E b \in TypedBytes :
           /\ uart_rx' = Append(uart_rx, b)
           /\ echo_typed' = Append(echo_typed, b)
    /\ UNCHANGED <<cpu_vars, plic_vars, gpio_irq, dma_irq, clint_msip, timer_vars, app_vars, ghost_vars,
                   g_isr_table>>
    /\ UNCHANGED <<echo_pc, echo_c, echo_out>>
    /\ UNCHANGED echo_others

\* if (g_uart_irq_fired)
plic_main_test ==
    /\ Foreground
    /\ echo_pc = "test"
    /\ g_uart_irq_fired
    /\ echo_pc' = "disable"
    /\ UNCHANGED <<mstatus_MIE, g_uart_irq_fired, echo_c, echo_typed, echo_out>>
    /\ EchoFrame

\* hal_irq_global_disable()
plic_main_disable ==
    /\ Foreground
    /\ echo_pc = "disable"
    /\ hal_irq_global_disable
    /\ echo_pc' = "snapshot"
    /\ UNCHANGED <<g_uart_irq_fired, echo_c, echo_typed, echo_out>>
    /\ EchoFrame

\* char c = g_rx_char; g_uart_irq_fired = false
plic_main_snapshot ==
    /\ Foreground
    /\ echo_pc = "snapshot"
    /\ echo_c' = g_rx_char
    /\ g_uart_irq_fired' = FALSE
    /\ echo_pc' = "enable"
    /\ UNCHANGED <<mstatus_MIE, echo_typed, echo_out>>
    /\ EchoFrame

\* hal_irq_global_enable()
plic_main_enable ==
    /\ Foreground
    /\ echo_pc = "enable"
    /\ hal_irq_global_enable
    /\ echo_pc' = "print"
    /\ UNCHANGED <<g_uart_irq_fired, echo_c, echo_typed, echo_out>>
    /\ EchoFrame

\* hal_uart_puts(" -> [IRQ] Voce digitou: "); hal_uart_putc(c)
plic_main_print ==
    /\ Foreground
    /\ echo_pc = "print"
    /\ echo_out' = Append(echo_out, echo_c)
    /\ echo_pc' = "test"
    /\ UNCHANGED <<mstatus_MIE, g_uart_irq_fired, echo_c, echo_typed>>
    /\ EchoFrame

\* ------------------------------------------------------------------------
\* server/npu_server.c, apps/npu_server.c: cpu_inference, the CPU reference
\* ------------------------------------------------------------------------
InfLanes == 0..(TILE - 1)
\* <<weight byte, input byte>> of one lane: a small product, one that saturates
\* upwards, one that saturates downwards, a small negative one
LanePairs == {<<1, 1>>, <<127, 127>>, <<128, 127>>, <<255, 1>>}
InfMults == {1, 3}
InfShifts == {0, 7}
InfCtxs == [mult : InfMults, shift : InfShifts, relu : BOOLEAN]
NoInf == [pc |-> "idle", k_dim |-> 0, ctx |-> [mult |-> 1, shift |-> 0, relu |-> FALSE],
          a |-> [n \in InfLanes |-> <<0, 0>>], b |-> [n \in InfLanes |-> <<0, 0>>],
          lane |-> 0, out_a |-> [h |-> 0, l |-> 0], out_b |-> [h |-> 0, l |-> 0]]


\* (w_pack >> (n * 8)) & 0xFF on a word kept as two 16-bit halves
LaneByte(word, n) ==
    IF n < 2 THEN (word.l \div (256 ^ n)) % 256 ELSE (word.h \div (256 ^ (n - 2))) % 256

PackLanes(b) == [h |-> b[2] + (b[3] * 256), l |-> b[0] + (b[1] * 256)]

RECURSIVE BitOr(_, _, _)
BitOr(x, y, bits) ==
    IF bits = 0 THEN 0
    ELSE (IF (x % 2) + (y % 2) > 0 THEN 1 ELSE 0) + (2 * BitOr(x \div 2, y \div 2, bits - 1))

U32Or(x, y) == [h |-> BitOr(x.h, y.h, 16), l |-> BitOr(x.l, y.l, 16)]

Shl8(v) == [h |-> ((v.h * 256) + (v.l \div 256)) % 65536, l |-> (v.l * 256) % 65536]

RECURSIVE ShlLane(_, _)
ShlLane(v, n) == IF n = 0 THEN v ELSE ShlLane(Shl8(v), n - 1)

\* the int32_t val as a 32-bit pattern
Int32Bits(val) ==
    IF val < 0 THEN [h |-> 65535, l |-> 65536 + val] ELSE [h |-> 0, l |-> val]

\* acc[n] += (int32_t)i * (int32_t)w, for k < k_dim
RECURSIVE cpu_acc(_, _, _, _)
cpu_acc(weights, inputs, k_dim, n) ==
    IF k_dim = 0 THEN 0
    ELSE cpu_acc(weights, inputs, k_dim - 1, n)
         + (AsInt8(LaneByte(inputs[k_dim], n)) * AsInt8(LaneByte(weights[k_dim], n)))

\* val = (acc[n] * mult) >> shift; ReLU; saturation
cpu_quant(acc_n, ctx) ==
    LET val == ShiftRight(acc_n * ctx.mult, ctx.shift)
    IN clamp_i8(IF ctx.relu /\ val < 0 THEN 0 ELSE val)

cpu_pack_sign_extended(packed_res, val, n) ==
    U32Or(packed_res, ShlLane(Int32Bits(val), n))

\* packed_res |= ((uint8_t)val & 0xFF) << (n * 8)
cpu_pack(packed_res, val, n) ==
    U32Or(packed_res, ShlLane([h |-> 0, l |-> val % 256], n))

RECURSIVE cpu_pack_loop(_, _, _, _, _)
cpu_pack_loop(weights, inputs, k_dim, ctx, n) ==
    IF n = 0 THEN [h |-> 0, l |-> 0]
    ELSE cpu_pack(cpu_pack_loop(weights, inputs, k_dim, ctx, n - 1),
                  cpu_quant(cpu_acc(weights, inputs, k_dim, n - 1), ctx), n - 1)

cpu_inference(weights, inputs, k_dim, ctx) ==
    cpu_pack_loop(weights, inputs, k_dim, ctx, TILE)

\* buffer_weights and buffer_inputs filled with k_dim copies of one packed word
InfWeights(lanes, k_dim) == [k \in 1..k_dim |-> PackLanes([n \in InfLanes |-> lanes[n][1]])]
InfInputs(lanes, k_dim) == [k \in 1..k_dim |-> PackLanes([n \in InfLanes |-> lanes[n][2]])]

\* command C: k_dim, mult, shift, relu
InfConfigure ==
    /\ inf.pc = "idle"
    /\ \E c \in InfCtxs, k \in 1..MaxAcc :
           inf' = [inf EXCEPT !.pc = "cfg", !.ctx = c, !.k_dim = k]
    /\ UNCHANGED <<boot, gc, ld, dly>>
    /\ UNCHANGED late_others

\* Two sets of buffers that agree on one lane and differ at most in the other lanes.
InfLoad ==
    /\ inf.pc = "cfg"
    /\ \E lane \in InfLanes, q \in LanePairs, r \in LanePairs, p \in LanePairs :
           inf' = [inf EXCEPT !.pc = "loaded", !.lane = lane,
                              !.a = [n \in InfLanes |-> IF n = lane THEN q ELSE r],
                              !.b = [n \in InfLanes |-> IF n = lane THEN q ELSE p]]
    /\ UNCHANGED <<boot, gc, ld, dly>>
    /\ UNCHANGED late_others

\* cpu_inference(&res) on each set
FgCpuInference ==
    /\ inf.pc = "loaded"
    /\ inf' = [inf EXCEPT
                 !.pc = "done",
                 !.out_a = cpu_inference(InfWeights(inf.a, inf.k_dim),
                                         InfInputs(inf.a, inf.k_dim), inf.k_dim, inf.ctx),
                 !.out_b = cpu_inference(InfWeights(inf.b, inf.k_dim),
                                         InfInputs(inf.b, inf.k_dim), inf.k_dim, inf.ctx)]
    /\ UNCHANGED <<boot, gc, ld, dly>>
    /\ UNCHANGED late_others

\* ------------------------------------------------------------------------
\* bootloader/boot.c: main waits for the magic word
\* ------------------------------------------------------------------------
Magic == <<202, 254, 186, 190>>
BootBytes == {202, 254, 186, 190, 0}
NoBoot == [pc |-> "m1", rx |-> <<>>, got |-> <<>>, tx |-> <<>>]

\* The host sends a byte; it enters the RX FIFO.
BootReceive ==
    /\ Len(boot.rx) < MaxRx
    /\ Len(boot.got) + Len(boot.rx) < MaxStream
    /\ \E b \in BootBytes : boot' = [boot EXCEPT !.rx = Append(@, b)]
    /\ UNCHANGED <<inf, gc, ld, dly>>
    /\ UNCHANGED late_others

\* Variant: a byte that breaks the sequence is itself tried as the first byte.
boot_match_restarts_at(k, b) ==
    IF b = Magic[k] THEN (IF k = 4 THEN "ack" ELSE <<"m2", "m3", "m4">>[k])
    ELSE IF b = Magic[1] THEN "m2" ELSE "m1"

\* if (uart_get_byte() == 0xCA) { if (uart_get_byte() == 0xFE) { ... break; } } }:
\* the position after comparing byte b as the k-th byte of the magic word
boot_match(k, b) ==
    IF b = Magic[k] THEN (IF k = 4 THEN "ack" ELSE <<"m2", "m3", "m4">>[k])
    ELSE "m1"

BootAt == CASE boot.pc = "m1" -> 1 [] boot.pc = "m2" -> 2 [] boot.pc = "m3" -> 3
            [] boot.pc = "m4" -> 4 [] OTHER -> 0

\* uart_get_byte(): wait for RX_AVAIL, read the data register, pop the FIFO
boot_get_byte ==
    /\ BootAt > 0
    /\ boot.rx # <<>>
    /\ boot' = [boot EXCEPT !.pc = boot_match(BootAt, Head(boot.rx)),
                            !.rx = Tail(@),
                            !.got = Append(@, Head(boot.rx))]
    /\ UNCHANGED <<inf, gc, ld, dly>>
    /\ UNCHANGED late_others

\* uart_putc('!'); then uart_get_uint32()
boot_ack ==
    /\ boot.pc = "ack"
    /\ boot' = [boot EXCEPT !.pc = "len", !.tx = Append(@, Ch.bang)]
    /\ UNCHANGED <<inf, gc, ld, dly>>
    /\ UNCHANGED late_others

\* ------------------------------------------------------------------------
\* hal_uart.c: hal_uart_kbhit, hal_uart_getc on the RX FIFO
\* ------------------------------------------------------------------------
GetcBytes == {65, 66}
NoGetc == [pc |-> "idle", c |-> 0, rx |-> <<>>, arrived |-> <<>>, ret |-> <<>>,
           ops |-> <<>>, kbhit |-> 0]

GetcFrame == UNCHANGED <<inf, boot, ld, dly>> /\ UNCHANGED late_others

\* A byte arrives and is queued behind the bytes not yet popped.
GetcReceive ==
    /\ Len(gc.rx) < MaxFifo
    /\ Len(gc.arrived) < MaxStream
    /\ \E b \in GetcBytes : gc' = [gc EXCEPT !.rx = Append(@, b), !.arrived = Append(@, b)]
    /\ GetcFrame

\* CTRL bit 1: RX_VALID
UART_STATUS_RX_VALID == gc.rx # <<>>

\* return (MMIO32(UART_CTRL_REG_ADDR) & UART_STATUS_RX_VALID) ? 1 : 0
hal_uart_kbhit ==
    /\ gc.pc = "idle"
    /\ gc' = [gc EXCEPT !.kbhit = IF UART_STATUS_RX_VALID THEN 1 ELSE 0]
    /\ GetcFrame

\* the single consumer calls hal_uart_getc()
FgUartGetc ==
    /\ gc.pc = "idle"
    /\ Len(gc.ret) < MaxStream
    /\ gc' = [gc EXCEPT !.pc = "poll", !.ops = <<>>]
    /\ GetcFrame

\* while ((MMIO32(UART_CTRL_REG_ADDR) & UART_STATUS_RX_VALID) == 0);
hal_uart_getc_poll ==
    /\ gc.pc = "poll"
    /\ UART_STATUS_RX_VALID
    /\ gc' = [gc EXCEPT !.pc = "read", !.ops = Append(@, "RX_VALID")]
    /\ GetcFrame

\* char c = (char)MMIO32(UART_DATA_REG_ADDR): the head of the FIFO, left in place
hal_uart_getc_read ==
    /\ gc.pc = "read"
    /\ gc' = [gc EXCEPT !.pc = "pop", !.c = Head(gc.rx), !.ops = Append(@, "DATA")]
    /\ GetcFrame

hal_uart_getc_pop_omitted ==
    /\ gc.pc = "pop"
    /\ gc' = [gc EXCEPT !.pc = "return"]
    /\ GetcFrame

\* MMIO32(UART_CTRL_REG_ADDR) = UART_CMD_RX_POP
hal_uart_getc_pop ==
    /\ gc.pc = "pop"
    /\ gc' = [gc EXCEPT !.pc = "return", !.rx = Tail(@), !.ops = Append(@, "RX_POP")]
    /\ GetcFrame

\* return c
hal_uart_getc_return ==
    /\ gc.pc = "return"
    /\ gc' = [gc EXCEPT !.pc = "idle", !.ret = Append(@, gc.c)]
    /\ GetcFrame

\* ------------------------------------------------------------------------
\* apps/mlp_server.c 61-83, server/npu_server.c 120-131: one load command whose
\* payload may be longer than the buffer it is read into. The stream behind the
\* length word is kept as a count of equal bytes, and uart_read_bytes takes its
\* len bytes in one step.
\* ------------------------------------------------------------------------
LoadImages == {"mlp", "irq"}
LoadTags(image) == IF image = "mlp" THEN {Ch.L, Ch.B, Ch.I} ELSE {Ch.L, Ch.I}
LoadPayloads == {PayloadByte, Ch.P}

\* The size in bytes of the buffer a load case reads into.
LoadCap(image, tag) ==
    CASE image = "mlp" /\ tag = Ch.L -> 180 * 1024
      [] image = "mlp" /\ tag = Ch.B -> 1024 * 4
      [] image = "mlp" /\ tag = Ch.I -> 2048 * 4
      [] image = "irq" /\ tag = Ch.L -> MAX_STORED_WEIGHTS_BYTES
      [] OTHER -> MAX_K_DIM * 4

LoadTotals(cap) == {0, 1, cap, cap + 1, cap + MaxExcess}

NoLoad == [pc |-> "idle", image |-> "mlp", tag |-> 0, total |-> 0, pay |-> 0, left |-> 0,
           consumed |-> 0, tags |-> <<>>, tx |-> <<>>]

LoadFrame == UNCHANGED <<inf, boot, gc, dly>> /\ UNCHANGED late_others

\* The host sends one command: the tag, the total as a u32, total payload bytes.
LoadSend ==
    /\ ld.pc = "idle"
    /\ \E image \in LoadImages : \E tag \in LoadTags(image) :
       \E total \in LoadTotals(LoadCap(image, tag)) : \E pay \in LoadPayloads :
           ld' = [ld EXCEPT !.pc = "cmd", !.image = image, !.tag = tag, !.total = total,
                            !.pay = pay, !.left = total]
    /\ LoadFrame

\* uint32_t total = uart_read_u32(); if (total > sizeof(..)) total = sizeof(..);
\* uart_read_bytes(.., total); hal_uart_putc('K');
\* uart_read_bytes returns once len bytes have arrived and not before.
load_case ==
    /\ ld.pc = "cmd"
    /\ LET len == BodyLen(ld.image, ld.tag, U32(ld.total)) IN
       IF len <= ld.left
       THEN ld' = [ld EXCEPT !.pc = "wait", !.consumed = 4 + len, !.left = ld.left - len,
                             !.tx = Append(ld.tx, Ch.K)]
       ELSE ld' = [ld EXCEPT !.pc = "body", !.consumed = 4 + ld.left, !.left = 0]
    /\ LoadFrame

\* uint8_t cmd = fast_getc(); switch (cmd) { case 'P': hal_uart_putc('O'); break; ... }
\* with the next byte of the stream, here a payload byte the load left behind.
load_next_tag ==
    /\ ld.pc = "wait"
    /\ ld.left > 0
    /\ ld' = [ld EXCEPT !.left = ld.left - 1,
                        !.tags = Append(ld.tags, ld.pay),
                        !.tx = IF ld.pay = Ch.P THEN Append(ld.tx, Ch.O) ELSE ld.tx]
    /\ LoadFrame

\* ------------------------------------------------------------------------
\* hal_timer.c 8-30: hal_timer_delay_us, hal_timer_delay_ms. The 64-bit counter
\* is the pair of halves of the timer section, so the subtraction wraps as the
\* uint64_t subtraction does. The clock factors are scaled with the counter.
\* ------------------------------------------------------------------------
TimerRange == TimerHalf * TimerHalf
DelayArgs == 0..MaxDelay
DelayUnits == {"us", "ms"}
NoDly == [pc |-> "idle", unit |-> "us", arg |-> 0, start |-> 0, wait |-> 0, now |-> 0,
          gap |-> 0, adv |-> 0, stopped |-> FALSE]

DelayFrame == UNCHANGED <<inf, boot, gc, ld>> /\
              UNCHANGED <<base_vars, cfg_vars, wire, uart_vars, echo_vars, dmat>>
DelayTmrGhosts == UNCHANGED <<tmr_pc, tmr_lo, tmr_hi, tmr_ret, tmr_prev, tmr_seen, tmr_ran>>

\* (uint64_t)us * (SYSTEM_CLOCK_HZ / 1000000), (uint64_t)ms * (SYSTEM_CLOCK_HZ / 1000):
\* a 64-bit product of a 32-bit argument and a factor below 2^32.
cycles_to_wait(unit, arg) == IF unit = "us" THEN arg * CyclesPerUs ELSE arg * CyclesPerMs

\* hal_timer_get_cycles() - start, in uint64_t
Elapsed(now, start) == ((now - start) + TimerRange) % TimerRange

\* One cycle of the enabled counter; between two steps of the delay loop the
\* counter advances by a bounded number of cycles.
DelayCycle ==
    /\ tmr_enable
    /\ dly.gap < MaxGap
    /\ tmr_count' = TimerInc(tmr_count)
    /\ dly' = [dly EXCEPT !.gap = dly.gap + 1, !.adv = Min(dly.adv + 1, TimerRange)]
    /\ UNCHANGED <<tmr_enable, tmr_shadow>>
    /\ DelayTmrGhosts
    /\ DelayFrame

\* hal_timer_stop, hal_timer_reset, hal_timer_start called by the program between
\* two delays.
DelayStop == dly.pc = "idle" /\ hal_timer_stop
DelayReset == dly.pc = "idle" /\ hal_timer_reset
DelayStart == dly.pc = "idle" /\ hal_timer_start

\* A call of hal_timer_delay_us(arg) or hal_timer_delay_ms(arg).
FgTimerDelay ==
    /\ dly.pc = "idle"
    /\ tmr_pc = "idle"
    /\ \E unit \in DelayUnits : \E arg \in DelayArgs :
           dly' = [dly EXCEPT !.pc = "snap0", !.unit = unit, !.arg = arg, !.gap = 0,
                              !.stopped = ~tmr_enable]
    /\ UNCHANGED tmr_vars
    /\ DelayFrame

\* hal_timer_get_cycles inlined in the delay: the CTRL write
hal_timer_delay_snapshot ==
    /\ dly.pc \in {"snap0", "snap"}
    /\ hal_timer_get_cycles_ctrl
    /\ dly' = [dly EXCEPT !.pc = IF dly.pc = "snap0" THEN "read0" ELSE "read",
                          !.adv = IF dly.pc = "snap0" THEN 0 ELSE dly.adv]
    /\ DelayTmrGhosts
    /\ DelayFrame

\* lo = TIMER_REG_LOW; hi = TIMER_REG_HIGH; return ((uint64_t)hi << 32) | lo
hal_timer_delay_read ==
    /\ dly.pc \in {"read0", "read"}
    /\ dly' = [dly EXCEPT !.pc = IF dly.pc = "read0" THEN "begin" ELSE "cmp",
                          !.now = TimerVal([hi |-> TIMER_REG_HIGH, lo |-> TIMER_REG_LOW])]
    /\ UNCHANGED tmr_vars
    /\ DelayFrame

\* uint64_t start = hal_timer_get_cycles(); uint64_t cycles_to_wait = ...
hal_timer_delay_begin ==
    /\ dly.pc = "begin"
    /\ dly' = [dly EXCEPT !.pc = "snap", !.start = dly.now,
                          !.wait = cycles_to_wait(dly.unit, dly.arg), !.gap = 0]
    /\ UNCHANGED tmr_vars
    /\ DelayFrame

\* while ((hal_timer_get_cycles() - start) < cycles_to_wait);
hal_timer_delay_compare ==
    /\ dly.pc = "cmp"
    /\ dly' = [dly EXCEPT !.pc = IF Elapsed(dly.now, dly.start) < dly.wait THEN "snap" ELSE "ret",
                          !.gap = 0]
    /\ UNCHANGED tmr_vars
    /\ DelayFrame

hal_timer_delay_return ==
    /\ dly.pc = "ret"
    /\ dly' = NoDly
    /\ UNCHANGED tmr_vars
    /\ DelayFrame

\* The steps of a delay that was called.
DelayProgram ==
    \/ hal_timer_delay_snapshot
    \/ hal_timer_delay_read
    \/ hal_timer_delay_begin
    \/ hal_timer_delay_compare
    \/ hal_timer_delay_return

LateReset ==
    /\ inf = NoInf
    /\ dly = NoDly
    /\ ld = NoLoad
    /\ boot = NoBoot
    /\ gc = NoGetc

\* ------------------------------------------------------------------------
\* tests/dma_test.c: main after its setup
\* ------------------------------------------------------------------------
DmaTestFrame == UNCHANGED <<base_vars, cfg_vars, tmr_vars, wire, uart_vars, echo_vars, late_vars>>

\* dma_start_async((uint32_t)src, (uint32_t)dst, BUFFER_SIZE): two disjoint buffers,
\* at least one word.
dma_main_call ==
    /\ Foreground
    /\ dmat.pc = "main"
    /\ dma_calls = 0
    /\ FgDmaStartAsync
    /\ dma_args'.size_words > 0
    /\ dma_args'.src + dma_args'.size_words <= dma_args'.dst

dma_main_wait_not_polled ==
    /\ Foreground
    /\ dmat.pc = "main"
    /\ dma_last_call = "dma_start_async"
    /\ dma_pc = "idle"
    /\ dmat' = [dmat EXCEPT !.pc = "verify"]
    /\ DmaTestFrame

\* while (!g_dma_done) { }
dma_main_wait ==
    /\ Foreground
    /\ dmat.pc = "main"
    /\ dma_last_call = "dma_start_async"
    /\ dma_pc = "idle"
    /\ g_dma_done
    /\ dmat' = [dmat EXCEPT !.pc = "verify"]
    /\ DmaTestFrame

\* if (dst[i] != (0xCAFE0000 + i)) erros++: the words main wrote to the source buffer
Erros ==
    Cardinality({ i \in 0..(dma_args.size_words - 1) :
                    ram[dma_args.dst + i] # dma_at_call.ram[dma_args.src + i] })

\* for (int i = 0; i < BUFFER_SIZE; i++) ...
dma_main_verify ==
    /\ Foreground
    /\ dmat.pc = "verify"
    /\ dmat' = [pc |-> "done", erros |-> Erros]
    /\ DmaTestFrame

NoDmaTest == [pc |-> "main", erros |-> 0]

ExtReset ==
    /\ CfgReset /\ TmrReset /\ WireReset /\ UartReset /\ EchoReset
    /\ dmat = NoDmaTest
    /\ LateReset

InitIrq ==
    /\ mstatus_MIE = FALSE
    /\ mstatus_MPIE = FALSE
    /\ mie = {}
    /\ mtvec = "reset"
    /\ mcause = MCAUSE_NONE
    /\ mepc = 0
    /\ cpu_pc = 0
    /\ trap_stack = <<>>
    /\ trap_insn = NoInsn
    /\ clint_msip = 0
    /\ clint_mtime = 0
    /\ clint_mtimecmp = TimerNever
    /\ g_software_irq_fired = FALSE
    /\ g_timer_irq_fired = FALSE
    /\ g_mcause_debug = MCAUSE_NONE
    /\ g_isr_table = [i \in TableIds |-> NULL]
    /\ plic_enable = {}
    /\ plic_priority = [i \in PlicIds |-> 0]
    /\ plic_threshold = 0
    /\ plic_claimed = {}
    /\ uart_rx = <<>>
    /\ gpio_irq = FALSE
    /\ dma_irq = FALSE
    /\ g_uart_irq_fired = FALSE
    /\ g_rx_char = 0
    /\ g_dma_done = FALSE
    /\ cc_bal = [i \in PlicIds |-> 0]
    /\ cc_zero_writes = 0

Init == InitIrq /\ CsrReset({0}) /\ DmaReset /\ LoadReset /\ MlReset /\ SrvReset /\ ExtReset

NextIrq ==
    \/ ExternalInterrupt
    \/ SoftwareInterrupt
    \/ irq_dispatch_csrr
    \/ irq_dispatch_claim
    \/ irq_dispatch_lookup
    \/ irq_dispatch_call
    \/ irq_dispatch_complete
    \/ irq_dispatch_mret
    \/ FgIrqInit
    \/ FgRegister
    \/ FgPlicSetPriority
    \/ FgPlicEnable
    \/ FgPlicDisable
    \/ FgGlobalEnable
    \/ FgGlobalDisable
    \/ FgMaskEnable
    \/ FgWriteMsip
    \/ UartReceive
    \/ GpioChange

SpecIrq == Init /\ [][NextIrq]_vars

\* The PLIC path alone, with the core always making its next step.
NextPlic ==
    \/ ExternalInterrupt
    \/ irq_dispatch_csrr
    \/ irq_dispatch_claim
    \/ irq_dispatch_lookup
    \/ irq_dispatch_call
    \/ irq_dispatch_complete
    \/ irq_dispatch_mret
    \/ FgIrqInit
    \/ FgRegister
    \/ FgPlicSetPriority
    \/ FgPlicEnable
    \/ FgPlicDisable
    \/ FgGlobalEnable
    \/ FgGlobalDisable
    \/ UartReceive

\* The core never stalls inside a trap: entry, every statement of the
\* dispatcher and mret are taken as soon as they are enabled.
TrapStep ==
    \/ ExternalInterrupt
    \/ irq_dispatch_csrr
    \/ irq_dispatch_claim
    \/ irq_dispatch_lookup
    \/ irq_dispatch_call
    \/ irq_dispatch_complete
    \/ irq_dispatch_mret

FairSpecIrq == Init /\ [][NextPlic]_vars /\ WF_vars(TrapStep)

\* One consumer of the RX FIFO, bytes arriving at any moment.
NextGetc ==
    \/ GetcReceive
    \/ hal_uart_kbhit
    \/ FgUartGetc
    \/ hal_uart_getc_poll
    \/ hal_uart_getc_read
    \/ hal_uart_getc_pop
    \/ hal_uart_getc_return

SpecGetc == Init /\ [][NextGetc]_vars

\* One load command sent to mlp_server or to server/npu_server.
NextLoadCmd ==
    \/ LoadSend
    \/ load_case
    \/ load_next_tag
SpecLoadCmd == Init /\ [][NextLoadCmd]_vars

\* A program that stops, resets and starts the timer and calls the delays.
NextDelay ==
    \/ DelayCycle
    \/ DelayStop
    \/ DelayReset
    \/ DelayStart
    \/ FgTimerDelay
    \/ hal_timer_delay_snapshot
    \/ hal_timer_delay_read
    \/ hal_timer_delay_begin
    \/ hal_timer_delay_compare
    \/ hal_timer_delay_return
\* The core keeps executing the delay it is in, and the enabled counter keeps counting.
FairSpecDelay == Init /\ [][NextDelay]_vars /\ WF_vars(DelayProgram) /\ WF_vars(DelayCycle)

\* The bootloader and a host that sends any bytes.
NextBoot ==
    \/ BootReceive
    \/ boot_get_byte
    \/ boot_ack

SpecBoot == Init /\ [][NextBoot]_vars

\* The CPU reference on pairs of buffer contents.
NextInf ==
    \/ InfConfigure
    \/ InfLoad
    \/ FgCpuInference

SpecInf == Init /\ [][NextInf]_vars

\* tests/dma_test.c after its setup: the asynchronous start, the engine, the
\* dispatcher, the wait loop and the verification, under fair progress of each.
InitDmaTest ==
    /\ IrqReady(PLIC_SOURCE_DMA, "my_dma_handler")
    /\ CsrReset({0}) /\ DmaReset /\ LoadReset /\ MlReset /\ SrvReset /\ ExtReset

FgDmaTest ==
    \/ dma_main_call
    \/ Foreground /\ dma_start_async_wait
    \/ Foreground /\ dma_start_async_write
    \/ dma_main_wait
    \/ dma_main_verify

\* The UART and GPIO lines move as they like; their sources are not enabled.
NextDmaTest ==
    \/ FgDmaTest
    \/ DmaStep
    \/ TrapStep
    \/ UartReceive
    \/ GpioChange

FairSpecDmaTest ==
    /\ InitDmaTest
    /\ [][NextDmaTest]_vars
    /\ WF_vars(FgDmaTest)
    /\ WF_vars(DmaStep)
    /\ WF_vars(TrapStep)

\* The core with the dispatcher installed, taking synchronous exceptions
\* and CLINT software interrupts.
NextTrap ==
    \/ Exception
    \/ SoftwareInterrupt
    \/ TimerInterrupt
    \/ irq_dispatch_csrr
    \/ irq_dispatch_mret
    \/ clint_trap_csrr
    \/ clint_trap_case3
    \/ clint_trap_case7
    \/ clint_trap_mret
    \/ FgIrqInit
    \/ FgSetClintHandler
    \/ FgGlobalEnable
    \/ FgGlobalDisable
    \/ FgMaskEnable
    \/ FgMaskTimer
    \/ FgWriteMsip
    \/ FgArmTimer
    \/ TimerTick

SpecTrap == Init /\ [][NextTrap]_vars

\* The Zicsr self-test on the simulated core.
NextCsr ==
    \/ SyncTrap
    \/ trap_handler_save
    \/ trap_handler_count
    \/ trap_handler_cause
    \/ trap_handler_restore
    \/ trap_handler_mepc
    \/ trap_handler_mret
    \/ main_set_mtvec
    \/ main_loop_prep
    \/ main_loop_check
    \/ main_ebreak_prep
    \/ main_ebreak_check
    \/ main_csr_prep
    \/ main_csr_check
    \/ main_word_prep
    \/ main_word_check

InitCsr == InitIrq /\ CsrReset(RegVals) /\ DmaReset /\ LoadReset /\ MlReset /\ SrvReset /\ ExtReset

SpecCsr == InitCsr /\ [][NextCsr]_vars

\* The DMA driver: blocking and asynchronous calls of the foreground, and the engine.
NextDma ==
    \/ FgDmaMemcpy
    \/ hal_dma_memcpy_wait1
    \/ hal_dma_memcpy_src
    \/ hal_dma_memcpy_dst
    \/ hal_dma_memcpy_cnt
    \/ hal_dma_memcpy_ctrl
    \/ hal_dma_memcpy_wait2
    \/ FgDmaStartAsync
    \/ dma_start_async_wait
    \/ dma_start_async_write
    \/ DmaStep

SpecDma == Init /\ [][NextDma]_vars

\* The NPU load functions on both data paths.
NextLoad ==
    \/ FgSetDmaEnabled
    \/ FgNpuLoad
    \/ hal_npu_load_check
    \/ hal_npu_load_dma
    \/ hal_npu_load_dma_done
    \/ hal_npu_load_pio
    \/ hal_npu_load_return
    \/ hal_dma_memcpy_wait1
    \/ hal_dma_memcpy_src
    \/ hal_dma_memcpy_dst
    \/ hal_dma_memcpy_cnt
    \/ hal_dma_memcpy_ctrl
    \/ hal_dma_memcpy_wait2
    \/ DmaStep

SpecLoad == Init /\ [][NextLoad]_vars

\* Dense layers on the tile engine, and the XOR test.
NextMl ==
    \/ FgRunLayer
    \/ ml_run_layer_configure
    \/ ml_run_layer_out_loop
    \/ ml_run_layer_in_loop
    \/ npu_load_weights
    \/ ml_run_layer_input
    \/ npu_execute
    \/ ml_run_layer_accumulate
    \/ ml_run_layer_post
    \/ ml_run_layer_return
    \/ main_run_l1
    \/ main_run_l2
    \/ main_validate

SpecMl == Init /\ [][NextMl]_vars

\* The three command servers and the NPU.
NextSrv ==
    \/ SrvBoot
    \/ NpuFinish
    \/ npu_isr
    \/ apps_cmd_W
    \/ apps_cmd_I
    \/ apps_cmd_B
    \/ apps_B_pio_start
    \/ apps_B_pio_wait
    \/ apps_B_dma_start
    \/ apps_B_dma_wait
    \/ apps_B_read_out
    \/ mlp_cmd_load
    \/ mlp_cmd_R
    \/ mlp_R_layer
    \/ mlp_R_neuron
    \/ mlp_R_start
    \/ mlp_R_wait
    \/ mlp_R_drain
    \/ irq_cmd_L
    \/ irq_cmd_I
    \/ irq_cmd_T
    \/ irq_cmd_B
    \/ irq_B_tile
    \/ irq_B_clear_flag
    \/ irq_B_start
    \/ irq_B_wait
    \/ irq_B_read_out

SpecSrv == Init /\ [][NextSrv]_vars

\* hal_npu_configure called with every combination of parameters.
NextCfg ==
    \/ FgNpuConfigure

SpecCfg == Init /\ [][NextCfg]_vars

\* The cycle counter running under a foreground that reads, starts, stops and resets it.
NextTmr ==
    \/ TimerCycle
    \/ hal_timer_reset
    \/ hal_timer_start
    \/ hal_timer_stop
    \/ FgTimerGetCycles
    \/ hal_timer_get_cycles_lo
    \/ hal_timer_get_cycles_hi
    \/ hal_timer_get_cycles_return

SpecTmr == Init /\ [][NextTmr]_vars

\* Values written to the UART and read back from it.
NextWire ==
    \/ FgUartWriteU32
    \/ FgUartReadU32
    \/ FgUartWriteU64

SpecWire == Init /\ [][NextWire]_vars

\* A host talking to one of the three servers over the UART.
NextUart ==
    \/ UartBoot
    \/ HostSend
    \/ cmd_getc
    \/ cmd_read_u32
    \/ cmd_read_byte
    \/ cmd_ack
    \/ cmdR_layer
    \/ cmdR_neuron
    \/ cmdR_swap
    \/ cmdR_report

SpecUart == Init /\ [][NextUart]_vars

\* tests/plic_test.c after its setup: bytes typed at any moment, the dispatcher, the
\* foreground loop.
InitEcho ==
    /\ IrqReady(PLIC_SOURCE_UART, "my_uart_handler")
    /\ CsrReset({0}) /\ DmaReset /\ LoadReset /\ MlReset /\ SrvReset /\ ExtReset

NextEcho ==
    \/ UartType
    \/ ExternalInterrupt
    \/ irq_dispatch_csrr
    \/ irq_dispatch_claim
    \/ irq_dispatch_lookup
    \/ irq_dispatch_call
    \/ irq_dispatch_complete
    \/ irq_dispatch_mret
    \/ plic_main_test
    \/ plic_main_disable
    \/ plic_main_snapshot
    \/ plic_main_enable
    \/ plic_main_print

SpecEcho == InitEcho /\ [][NextEcho]_vars

\* ------------------------------------------------------------------------
\* Interrupt dispatcher: claim/complete protocol
\* ------------------------------------------------------------------------
Frames == { trap_stack[k] : k \in 1..Len(trap_stack) }
Idx(log, kind) == { i \in 1..Len(log) : log[i][1] = kind }
InService(f) == f.pc \in {"d_lookup", "d_call", "d_complete"}

RECURSIVE SumBal(_)
SumBal(S) == IF S = {} THEN 0
             ELSE LET s == CHOOSE x \in S : TRUE IN cc_bal[s] + SumBal(S \ {s})

\* C1: in irq_dispatch_handler every claim that returned a non-zero ID is
\* followed, before the handler returns, by exactly one complete write with
\* that same ID, whether or not the table holds a handler for it, and no
\* second claim is issued before that complete.
C1_ClaimCompletePaired ==
    \A f \in Frames :
        /\ Cardinality(Idx(f.log, "claim")) <= 1
        /\ \A c \in Idx(f.log, "complete") : \E i \in Idx(f.log, "claim") : i < c
        /\ f.pc = "d_ret" =>
              \A i \in Idx(f.log, "claim") :
                  f.log[i][2] # 0 =>
                      /\ Cardinality(Idx(f.log, "complete")) = 1
                      /\ \A c \in Idx(f.log, "complete") :
                            c > i /\ f.log[c][2] = f.log[i][2]

C1_Witness ==
    /\ InTrap
    /\ Top.pc = "d_ret"
    /\ Top.source # 0
    /\ g_isr_table[Top.source] = NULL
    /\ Top.log = << <<"claim", Top.source>>, <<"complete", Top.source>> >>

\* C2: the dispatcher calls a handler iff mcause is 0x8000000B, the claimed
\* ID s is in 1..31 and g_isr_table[s] is not NULL; it then calls exactly
\* g_isr_table[s], once, after the claim and before the complete. A claim
\* that returns 0 calls nothing, also with a handler registered for ID 0.
C2_Calls(f) ==
    /\ f.mcause = MCAUSE_MEI
    /\ f.source \in PlicIds
    /\ g_isr_table[f.source] # NULL

C2_HandlerCalledIffRegistered ==
    \A f \in Frames :
        /\ \A i \in Idx(f.log, "call") :
              /\ \E a \in Idx(f.log, "claim") : a < i
              /\ \A c \in Idx(f.log, "complete") : i < c
        /\ f.pc = "d_ret" =>
              IF C2_Calls(f)
              THEN f.log = << <<"claim", f.source>>,
                              <<"call", g_isr_table[f.source]>>,
                              <<"complete", f.source>> >>
              ELSE Idx(f.log, "call") = {}

C2_Witness ==
    /\ InTrap
    /\ Top.pc = "d_ret"
    /\ C2_Calls(Top)
    /\ Top.log = << <<"claim", Top.source>>, <<"call", g_isr_table[Top.source]>>,
                    <<"complete", Top.source>> >>

\* A spurious claim with a handler registered for ID 0 is reached too.
C2_SpuriousReached ==
    /\ InTrap
    /\ Top.pc = "d_ret"
    /\ Top.mcause = MCAUSE_MEI
    /\ Top.source = 0
    /\ g_isr_table[0] # NULL

\* C3 as stated: at every point the number of writes to the claim/complete
\* register equals the number of claims that returned non-zero, but for at
\* most one outstanding claim; hal_plic_init and spurious claims included.
C3_AllWritesBalanced ==
    cc_zero_writes + SumBal(PlicIds) \in {-1, 0}

\* C3 amended: for every source ID s in 1..31 the complete writes carrying s
\* equal the claims that returned s, but for one outstanding claim exactly
\* while the dispatcher services s; at most one source is outstanding.
C3_PerSourceBalanced ==
    /\ \A s \in PlicIds :
          /\ cc_bal[s] \in {-1, 0}
          /\ cc_bal[s] = -1 <=> \E f \in Frames : InService(f) /\ f.source = s
    /\ Cardinality({ s \in PlicIds : cc_bal[s] = -1 }) <= 1

C3_Witness ==
    /\ InTrap
    /\ Top.pc = "d_call"
    /\ cc_bal[Top.source] = -1
    /\ cc_zero_writes >= 1

\* C5: at most one trap is active at any time; no second entry into the trap
\* handler while the dispatcher or a callback runs.
C5_SingleTrap == Len(trap_stack) <= 1

\* A second enabled source requests an interrupt while a callback is due.
C5_Witness ==
    /\ InTrap
    /\ Top.pc = "d_complete"
    /\ Idx(Top.log, "call") # {}
    /\ 11 \in mie
    /\ MEIP
    /\ ~mstatus_MIE

\* ------------------------------------------------------------------------
\* Unregistered sources, exceptions and CLINT interrupts
\* ------------------------------------------------------------------------
\* The core fetches the foreground's next instruction.
ForegroundRuns == ~InTrap /\ ~InterruptReady

UnregisteredInService ==
    /\ InTrap
    /\ Top.pc = "d_lookup"
    /\ Top.source \in PlicIds
    /\ g_isr_table[Top.source] = NULL

\* C4: when an enabled source with no registered handler becomes pending,
\* the dispatcher claims it, calls nothing, completes it and returns, and
\* the foreground eventually executes again.
C4_ForegroundResumes == UnregisteredInService ~> ForegroundRuns

\* C6: with irq_dispatch_handler installed, a synchronous exception makes
\* the dispatcher advance mepc by 4 before it returns, so that execution
\* resumes after the trapping instruction.
C6_ExceptionAdvancesMepc ==
    \A f \in Frames :
        (f.vec = "irq_dispatch_handler" /\ f.pc = "d_ret" /\ ~f.cause.irq)
            => mepc = f.epc + 4

\* C8: a trap handler returns from a machine software interrupt with the
\* MSIP latch cleared and from a machine timer interrupt with the timer
\* acknowledged, so the same request does not enter the handler again.
C8_RequestAcknowledged ==
    \A f \in Frames :
        f.pc \in {"d_ret", "c_ret"} =>
            /\ f.cause = MCAUSE_MSI => clint_msip = 0
            /\ f.cause = MCAUSE_MTI => ~MTIP

\* ------------------------------------------------------------------------
\* The Zicsr trap self-test
\* ------------------------------------------------------------------------
JustReturned == ~InTrap /\ trap_returned.valid /\ main_pc \in TrapLabels

\* C7: with trap_handler of test_csr.c installed, each synchronous trap
\* increments g_trap_counter by exactly 1, stores its mcause in
\* g_last_mcause (11 for ECALL, 3 for EBREAK, 2 for an illegal opcode or an
\* invalid CSR), leaves mcause restored and returns with mepc equal to the
\* trapping PC plus 4; after n consecutive ECALLs the counter has grown by n.
C7_TrapCountedRecordedSkipped ==
    /\ ~InTrap => g_trap_counter = traps_taken
    /\ \A f \in Frames :
          f.vec = "trap_handler" =>
              g_trap_counter = f.count + (IF f.pc \in {"t_save", "t_count"} THEN 0 ELSE 1)
    /\ JustReturned =>
          /\ g_trap_counter = trap_returned.count + 1
          /\ trap_returned.epc = InsnAddr(main_pc)
          /\ mepc = trap_returned.epc + 4
          /\ cpu_pc = trap_returned.epc + 4
          /\ mcause = trap_returned.cause
          /\ g_last_mcause = (CASE main_pc = "m_ecall" -> 11
                                [] main_pc = "m_ebreak" -> 3
                                [] OTHER -> 2)
    /\ main_pc \in {"m_loop_prep", "m_ebreak_prep"} => g_trap_counter = main_i
    /\ main_pc = "m_ebreak_prep" => (main_i = NumEcalls /\ falhas = 0)
    /\ main_pc # "m_fail"

C7_Witness ==
    /\ main_pc = "m_halt"
    /\ g_trap_counter = NumEcalls + 3
    /\ g_last_mcause = 2
    /\ mepc = InsnAddr("m_word") + 4
    /\ uart_log = <<"SUCESSO", "SUCESSO", "SUCESSO", "SUCESSO">>

\* ------------------------------------------------------------------------
\* The DMA driver
\* ------------------------------------------------------------------------
DmaOrder == <<"SRC", "DST", "CNT", "CTRL">>

DmaExpected(reg) ==
    CASE reg = "SRC" -> dma_args.src
      [] reg = "DST" -> dma_args.dst
      [] reg = "CNT" -> dma_args.size_words
      [] reg = "CTRL" -> IF dma_args.fixed_dst = 0 THEN {0} ELSE {0, 1}

MemcpyReturned == dma_last_call = "hal_dma_memcpy" /\ dma_pc = "idle"

\* C9: hal_dma_memcpy writes SRC, DST, CNT and CTRL only while the DMA
\* reports BUSY = 0, writes SRC, DST and CNT before its single CTRL write
\* (START, plus FIXED_DST iff fixed_dst is non-zero) and returns only after
\* BUSY has cleared again; no START is written while a transfer is in flight.
C9_MemcpySerialised ==
    /\ dma_last_call = "hal_dma_memcpy" =>
          /\ Len(dma_log) <= 4
          /\ \A i \in 1..Len(dma_log) :
                /\ ~dma_log[i].busy
                /\ dma_log[i].reg = DmaOrder[i]
                /\ dma_log[i].val = DmaExpected(DmaOrder[i])
          /\ dma_hw.busy => dma_pc = "m_wait1" \/ (dma_pc = "m_wait2" /\ Len(dma_log) = 4)
          /\ MemcpyReturned => (Len(dma_log) = 4 /\ ~dma_hw.busy)
    /\ ~dma_overlap

C9_Witness ==
    /\ MemcpyReturned
    /\ dma_calls = 2
    /\ dma_args.size_words = MaxWords
    /\ dma_args.fixed_dst = 2
    /\ dma_log[4].val = {0, 1}
    /\ ram[dma_args.dst] = dma_at_call.ram[dma_args.src + MaxWords - 1]

\* C10: hal_dma_memcpy called with size_words = 0 is a no-op: it writes no
\* START to CTRL and leaves every DMA register as it was at the call.
C10_ZeroSizeIsNoOp ==
    (MemcpyReturned /\ dma_args.size_words = 0) =>
        /\ dma_regs = dma_at_call.regs
        /\ \A i \in 1..Len(dma_log) : dma_log[i].reg # "CTRL"

DmaSrcRange == { dma_args.src + i : i \in 0..(dma_args.size_words - 1) }
DmaDstRange == { dma_args.dst + i : i \in 0..(dma_args.size_words - 1) }

MemcpyIncrementing ==
    /\ MemcpyReturned
    /\ dma_args.fixed_dst = 0
    /\ DmaSrcRange \cap DmaDstRange = {}

\* C11: after hal_dma_memcpy(src, dst, n, 0) returns, with non-overlapping
\* ranges, every destination word equals the source word of the same index,
\* the source words are unchanged and no word outside the destination range
\* was written.
C11_MemcpyFidelity ==
    MemcpyIncrementing =>
        /\ \A i \in 0..(dma_args.size_words - 1) :
              ram[dma_args.dst + i] = dma_at_call.ram[dma_args.src + i]
        /\ \A a \in DmaSrcRange : ram[a] = dma_at_call.ram[a]
        /\ \A a \in DOMAIN ram \ DmaDstRange : ram[a] = dma_at_call.ram[a]

C11_Witness ==
    /\ MemcpyIncrementing
    /\ dma_args.size_words = MaxWords
    /\ dma_args.src = 0
    /\ ram[dma_args.dst] = 1
    /\ ram[dma_args.dst + MaxWords - 1] = MaxWords

\* ------------------------------------------------------------------------
\* The NPU load functions
\* ------------------------------------------------------------------------
LoadReturned == load_pc = "l_ret"

LoadExpected ==
    [i \in 1..load_args.num_words |->
        [port |-> LoadPort, word |-> dma_at_call.ram[load_args.data + i - 1]]]

\* C12: for n >= 1, hal_npu_load_weights (resp. hal_npu_load_inputs)
\* delivers to the weights port (resp. the input port) exactly data[0], ...,
\* data[n-1], in order, each once, and nothing to the other port, on the DMA
\* path and on the PIO path alike.
C12_LoadDeliversBuffer ==
    /\ (LoadReturned /\ load_args.num_words >= 1) => npu_wr_log = LoadExpected
    /\ \A i \in 1..Len(npu_wr_log) : npu_wr_log[i] = LoadExpected[i]

C12_WitnessDma ==
    /\ LoadReturned
    /\ s_use_dma
    /\ load_args.fn = "hal_npu_load_weights"
    /\ load_args.num_words = MaxWords
    /\ Len(npu_wr_log) = MaxWords
    /\ npu_wr_log[1].port = NPU_ADDR_FIFO_WEIGHTS

C12_WitnessPio ==
    /\ LoadReturned
    /\ ~s_use_dma
    /\ load_args.fn = "hal_npu_load_inputs"
    /\ load_args.num_words = MaxWords
    /\ Len(npu_wr_log) = MaxWords
    /\ npu_wr_log[MaxWords].port = NPU_ADDR_FIFO_INPUTS

\* C20: hal_npu_load_weights and hal_npu_load_inputs called with
\* num_words = 0 write to no NPU port and start no DMA transfer, in PIO and
\* in DMA mode.
C20_EmptyLoadTouchesNothing ==
    (load_pc # "idle" /\ load_args.num_words = 0) =>
        /\ npu_wr_log = <<>>
        /\ dma_log = <<>>
        /\ dma_pc = "idle"
        /\ ~dma_hw.busy
        /\ dma_regs = dma_at_call.regs

C20_Witness ==
    /\ LoadReturned
    /\ load_args.num_words = 0
    /\ s_use_dma
    /\ load_calls = MaxCalls

\* ------------------------------------------------------------------------
\* Tiny-ML engine: the layer function against the scalar reference
\* ------------------------------------------------------------------------
MlReturned == ml_pc = "l_ret"
TileEntries == { tile_log[n] : n \in 1..Len(tile_log) }
CeilDiv(a, b) == (a + b - 1) \div b

\* sum over i < n of input[i] * weights[j * in_features + i]
RECURSIVE RowDot(_, _)
RowDot(j, n) ==
    IF n = 0 THEN 0
    ELSE RowDot(j, n - 1)
         + ml_input[n] * ml_layer.weights[j * ml_layer.in_features + n]

\* The scalar reference of output j.
RefOutput(j) ==
    LET total == ml_layer.bias[j + 1] + RowDot(j, ml_layer.in_features)
        shifted == (total * ml_layer.output_mult) \div (2 ^ ml_layer.output_shift)
        act == IF ml_layer.use_relu # 0 /\ shifted < 0 THEN 0 ELSE shifted
    IN IF act > 127 THEN 127 ELSE IF act < -128 THEN -128 ELSE act

\* C14: for any dense layer (any in_features, out_neurons >= 1, also
\* non-multiples of 4 and several tiles) ml_run_layer stores in output[j], for
\* every j < out_neurons, the value of the scalar reference
\* sat_i8(relu?(((bias[j] + sum_i input[i]*weights[j*in_features+i]) * mult) >> shift)),
\* and the XOR network of tiling_test.c detects 1 (output > 30) iff its two
\* inputs disagree.
C14_BitIdenticalToReference ==
    /\ MlReturned =>
         \A j \in 0..(ml_layer.out_neurons - 1) : ml_output[j + 1] = RefOutput(j)
    /\ \A n \in 1..Len(xor_log) :
         (xor_log[n].logic_detected = 1) <=> (xor_log[n].inputs[1] # xor_log[n].inputs[2])

\* C15: the value ml_run_layer adds to each software accumulator for a tile is
\* the tile's exact partial sum sum_row input[ig+row]*W[row][col], neither
\* saturated nor truncated to 8 bits.
C15_ExactPartialSums ==
    \A e \in TileEntries : \A col \in Lanes : e.added[col] = NpuDot(e.w, e.v, col)

\* The contributions of the real features of tile e to output lane col.
RECURSIVE RealPartial(_, _, _)
RealPartial(e, col, rows) ==
    IF rows = {} THEN 0
    ELSE LET row == CHOOSE x \in rows : TRUE
         IN (IF e.ig + row < ml_layer.in_features
             THEN ml_input[e.ig + row + 1]
                  * ml_layer.weights[(e.og + col) * ml_layer.in_features + e.ig + row + 1]
             ELSE 0)
            + RealPartial(e, col, rows \ {row})

ReadInsideLayer(r) ==
    /\ r.idx >= 0
    /\ r.arr = "weights" => r.idx < ml_layer.out_neurons * ml_layer.in_features
    /\ r.arr = "bias" => r.idx < ml_layer.out_neurons
    /\ r.arr = "input" => r.idx < ml_layer.in_features

C17_TileInvocations ==
    LET tiles == CeilDiv(ml_layer.out_neurons, TILE) * CeilDiv(ml_layer.in_features, TILE)
    IN /\ Len(tile_log) <= tiles
       /\ Len(lib_log) <= tiles + tiles
       /\ \A n \in 1..Len(lib_log) :
            lib_log[n] = IF n % 2 = 1 THEN "npu_load_weights" ELSE "npu_execute"
       /\ MlReturned => Len(tile_log) = tiles /\ Len(lib_log) = tiles + tiles
       /\ \A e \in TileEntries : \A row \in Lanes, col \in Lanes :
            (e.og + col < ml_layer.out_neurons /\ e.ig + row < ml_layer.in_features)
              => e.w[row][col]
                   = ml_layer.weights[(e.og + col) * ml_layer.in_features + e.ig + row + 1]

\* A returned layer that spans several tiles on both axes.
C17_Witness ==
    /\ MlReturned
    /\ ml_layer.out_neurons > TILE
    /\ ml_layer.in_features > TILE
    /\ Len(tile_log) = 4
    /\ \E e \in TileEntries : e.w[0][1] # e.w[1][0]


\* ------------------------------------------------------------------------
\* Command servers: START, completion and OUT; host values; K = 0
\* ------------------------------------------------------------------------
\* C13: in mlp_server command R, npu_server command B and the tile loop of the
\* interrupt-driven server, a START is issued only when no earlier START is
\* incomplete, and OUT is read only after the completion of the most recent
\* START was observed: STATUS.DONE polled set, or g_npu_done set by the
\* interrupt that START raised.
C13_StartAndReadOrdered ==
    /\ \A s \in npu_starts : ~s.busy
    /\ \A r \in out_reads : r.observed /\ r.state = "DONE"

\* The interrupt-driven server has read the result of its second tile.
C13_Witness ==
    /\ srv_image = "irq"
    /\ srv_pc = "t_tile"
    /\ srv_i >= 2
    /\ out_reads # {}

\* A polling server has read OUT after its last START.
C13_WitnessPolled ==
    /\ srv_image \in {"apps", "mlp"}
    /\ srv_pc = "idle"
    /\ out_reads # {}
    /\ Cardinality(npu_starts) >= 1

\* C18: any K or length received from the host that exceeds the maximum is
\* clamped before use, so the counts used to fill or DMA into buffer_weights,
\* buffer_inputs, the weight store, the bias store, the ping-pong buffers and
\* results[] never exceed the capacity of the buffer.
C18_HostValuesClamped == \A b \in Buffers : buf_max[b] <= BufCap[b]

\* C19: hal_npu_configure never writes 0 to CONFIG, and the NPU is never
\* started with accumulation depth 0.
C19_ConfigNeverZero ==
    /\ 0 \notin cfg_writes
    /\ \A s \in npu_starts : s.k # 0

\* ------------------------------------------------------------------------
\* NPU configuration registers
\* ------------------------------------------------------------------------
BitAt(v, i) == (v \div (2 ^ i)) % 2
CfgCalled == cfg_call # NoCfgCall

\* C21: after hal_npu_configure(k, quant), CONFIG holds k and QUANT_MULT holds mult;
\* QUANT_CFG carries shift modulo 32 in bits 0..4 (so the field is never above 31), the
\* low byte of zero_point in bits 8..15 and zero in every other bit; FLAGS holds the
\* RELU bit exactly when relu is set. With quant = NULL the multiplier is 1 and
\* QUANT_CFG and FLAGS are 0.
C21_ConfigureRegisters ==
    CfgCalled =>
        /\ npu_config = cfg_call.k_dim
        /\ IF cfg_call.quant = NoQuant
           THEN /\ npu_quant_mult = 1
                /\ npu_quant_cfg = 0
                /\ npu_flags = {}
           ELSE /\ npu_quant_mult = cfg_call.quant.mult
                /\ \A i \in 0..4 : BitAt(npu_quant_cfg, i) = BitAt(cfg_call.quant.shift, i)
                /\ \A i \in 8..15 :
                       BitAt(npu_quant_cfg, i) = BitAt(cfg_call.quant.zero_point, i - 8)
                /\ \A i \in (5..7) \cup (16..30) : BitAt(npu_quant_cfg, i) = 0
                /\ npu_quant_cfg >= 0
                /\ (0 \in npu_flags) <=> cfg_call.quant.relu
                /\ npu_flags \subseteq NPU_FLAG_RELU

\* A call whose shift is above 31 and whose zero_point is wider than a byte.
C21_Witness ==
    /\ CfgCalled
    /\ cfg_call.quant # NoQuant
    /\ cfg_call.quant.shift > 31
    /\ cfg_call.quant.zero_point > 255
    /\ cfg_call.quant.relu
    /\ npu_quant_cfg > 0

\* A call with quant = NULL after a call that had set every register.
C21_WitnessNull ==
    /\ CfgCalled
    /\ cfg_call.quant = NoQuant
    /\ npu_quant_mult = 1

\* ------------------------------------------------------------------------
\* Cycle counter reads
\* ------------------------------------------------------------------------
\* C22: the value hal_timer_get_cycles returns is the value the 64-bit counter had at
\* one instant of the call, whatever increments (carries from the low half into the
\* high half included) interleave with the call's register accesses.
C22_ReadIsOneInstant ==
    (tmr_pc = "idle" /\ tmr_ret # NoTime) => tmr_ret \in tmr_seen

\* A call during which the counter carried from the low half into the high half.
C22_Witness ==
    /\ tmr_pc = "idle"
    /\ tmr_ret # NoTime
    /\ \E a, b \in tmr_seen : a \div TimerHalf < b \div TimerHalf

\* C23: of two successive calls with no hal_timer_reset in between, the second returns
\* at least what the first returned, and more when the counter ran between them.
C23_Monotonic ==
    (tmr_pc = "idle" /\ tmr_prev # NoPrev) =>
        /\ tmr_ret >= tmr_prev.t
        /\ tmr_prev.ran => tmr_ret > tmr_prev.t

\* Two successive calls with the counter running between them.
C23_Witness ==
    /\ tmr_pc = "idle"
    /\ tmr_prev # NoPrev
    /\ tmr_prev.ran
    /\ tmr_ret > tmr_prev.t

\* Two successive calls between which the counter stood still.
C23_WitnessEqual ==
    /\ tmr_pc = "idle"
    /\ tmr_prev # NoPrev
    /\ ~tmr_prev.ran
    /\ tmr_ret = tmr_prev.t

\* ------------------------------------------------------------------------
\* Values on the wire
\* ------------------------------------------------------------------------
\* The value of byte k (0 = least significant) of a 32-bit value.
ByteOfU32(val, k) ==
    LET half == IF k < 2 THEN val.l ELSE val.h
    IN  (half \div (256 ^ (k % 2))) % 256

\* C28: uart_read_u32 applied to the four bytes uart_write_u32(v) sends returns v, and
\* the first byte sent is the least significant; uart_write_u64 sends the low word
\* first, least significant byte first.
C28_RoundTrip ==
    /\ (wire.kind = "u32") =>
           /\ Len(wire.bytes) = 4
           /\ \A k \in 0..3 : wire.bytes[k + 1] = ByteOfU32(wire.v, k)
           /\ wire.back # <<>> => wire.back[1] = wire.v
    /\ (wire.kind = "u64") =>
           /\ Len(wire.bytes) = 8
           /\ \A k \in 0..3 : wire.bytes[k + 1] = ByteOfU32(wire.v.lo, k)
           /\ \A k \in 0..3 : wire.bytes[k + 5] = ByteOfU32(wire.v.hi, k)

\* A value with four different bytes went out and came back.
C28_Witness ==
    /\ wire.kind = "u32"
    /\ wire.back # <<>>
    /\ wire.v = [h |-> 43981, l |-> 4660]
    /\ wire.bytes = <<52, 18, 205, 171>>

\* A 64-bit value whose two words differ went out.
C28_Witness64 ==
    /\ wire.kind = "u64"
    /\ wire.v.lo # wire.v.hi
    /\ wire.bytes[1] = 255
    /\ wire.bytes[8] = 171

\* ------------------------------------------------------------------------
\* Command framing
\* ------------------------------------------------------------------------
\* The server waits inside a command for bytes the host has not sent.
Starved ==
    \/ cmd_pc = "hdr" /\ Len(uart_rxq) < 4
    \/ cmd_pc = "body" /\ cur_cmd.left > 0 /\ uart_rxq = <<>>
    \/ cmd_pc = "r_layer" /\ run.l < run.num_layers /\ Len(uart_rxq) < 32

FramedTags == {"C", "L", "B", "I", "T", "P"}

\* C24: mlp_server and server/npu_server answer every command C, L, B, I, T sent with
\* its complete payload (12 bytes for C and T; a u32 total and total bytes for L, B, I)
\* by consuming exactly that payload, emitting exactly one 'K' and returning to the
\* wait for the next command; a ping consumes nothing and emits one byte, 'P' or 'O'.
C24_CommandFraming ==
    uart_image \in {"mlp", "irq"} =>
        /\ ~Starved
        /\ \A i \in 1..Len(cmd_log) :
               /\ i <= Len(host_sent)
               /\ host_sent[i].tag \in FramedTags =>
                      /\ cmd_log[i].tag = Ch[host_sent[i].tag]
                      /\ cmd_log[i].consumed = host_sent[i].payload
                      /\ cmd_log[i].out = IF host_sent[i].tag # "P" THEN <<Ch.K>>
                                          ELSE IF uart_image = "mlp" THEN <<Ch.O>> ELSE <<Ch.P>>

\* The n_out of each layer of a run command, from the header the host sent.
RECURSIVE LayerOuts(_)
LayerOuts(hdr) == IF Len(hdr) < 8 THEN <<>>
                  ELSE <<hdr[2]>> \o LayerOuts(SubSeq(hdr, 9, Len(hdr)))
RECURSIVE SumSeq(_)
SumSeq(s) == IF s = <<>> THEN 0 ELSE Head(s) + SumSeq(Tail(s))
RunOuts(i) == LayerOuts(Tail(host_sent[i].hdr))
RunLast(i) == IF RunOuts(i) = <<>> THEN 0 ELSE RunOuts(i)[Len(RunOuts(i))]

\* C25: the answer of mlp_server to R is, in this order and with nothing else: one
\* progress byte per output neuron, one '!', the cycles in 8 bytes, len in 4 bytes
\* (the n_out of the last layer, 0 without layers) and len 32-bit values; '!' is not
\* sent while a neuron is still to run.
C25_RunResponse ==
    uart_image = "mlp" =>
        /\ cmd_pc \in {"r_layer", "r_neuron"} =>
               \A k \in 1..Len(CmdOut(uart_txq)) : CmdOut(uart_txq)[k] # Ch.bang
        /\ \A i \in 1..Len(cmd_log) :
               host_sent[i].tag = "R" =>
                   LET out == cmd_log[i].out
                       dots == SumSeq(RunOuts(i))
                   IN  /\ Len(out) = dots + 1 + 8 + 4 + (4 * RunLast(i))
                       /\ \A k \in 1..dots : out[k] # Ch.bang
                       /\ out[dots + 1] = Ch.bang
                       /\ uart_read_u32(SubSeq(out, dots + 10, dots + 13)) = U32(RunLast(i))

\* The same answer with one more byte allowed at the head of each layer.
C25_RunResponseWithLayerMarks ==
    uart_image = "mlp" =>
        \A i \in 1..Len(cmd_log) :
            host_sent[i].tag = "R" =>
                LET out == cmd_log[i].out
                    dots == SumSeq(RunOuts(i)) + Len(RunOuts(i))
                IN  /\ Len(out) = dots + 1 + 8 + 4 + (4 * RunLast(i))
                    /\ \A k \in 1..dots : out[k] \in {Ch.dot, Ch.L}
                    /\ out[dots + 1] = Ch.bang
                    /\ uart_read_u32(SubSeq(out, dots + 10, dots + 13)) = U32(RunLast(i))

Other(buf) == IF buf = "buffer_A" THEN "buffer_B" ELSE "buffer_A"
InputOf(l) == IF l % 2 = 0 THEN "buffer_A" ELSE "buffer_B"
RunReported ==
    /\ cmd_log # <<>>
    /\ cmd_log[Len(cmd_log)].tag = Ch.R
    /\ run.reported # "none"

\* C26: in a run, layer 0 reads buffer A and writes buffer B; every later layer reads
\* the buffer the layer before it wrote and writes the other one, never its own input;
\* the values sent after '!' come from the buffer the last layer wrote.
C26_PingPong ==
    /\ \A k \in 1..Len(run.runs) :
           /\ run.runs[k].in = InputOf(run.runs[k].l)
           /\ run.runs[k].out = Other(run.runs[k].in)
    /\ (RunReported /\ run.num_layers > 0) =>
           LET out == cmd_log[Len(cmd_log)].out
               base == Len(out) - (4 * run.final_len)
           IN  /\ run.reported = Other(InputOf(run.num_layers - 1))
               /\ \A n \in 0..(run.final_len - 1) :
                      uart_read_u32(SubSeq(out, base + (4 * n) + 1, base + (4 * n) + 4))
                          = U32(NeuronVal(run.num_layers - 1, n))

\* A run of two layers of two neurons each was reported.
C26_Witness ==
    /\ RunReported
    /\ run.num_layers = 2
    /\ run.final_len = 2
    /\ Len(run.runs) = 4
    /\ run.reported = "buffer_A"

\* C27: a byte that is none of the server's command tags, read where a tag is
\* expected, makes the server emit nothing and change nothing: exactly that byte is
\* consumed and the server waits for the next one.
C27_UnknownByteIgnored ==
    [][(cmd_getc /\ Head(uart_rxq) \notin KnownTags(uart_image)) =>
           /\ uart_txq' = uart_txq
           /\ uart_rxq' = Tail(uart_rxq)
           /\ UNCHANGED <<cmd_pc, cur_cmd, srv_store, run>>]_vars

\* An unknown byte was consumed, and the load that followed it was answered.
C27_Witness ==
    /\ Len(cmd_log) = 2
    /\ cmd_log[1].tag = Ch.X
    /\ cmd_log[1].out = <<>>
    /\ cmd_log[2].consumed > 4
    /\ cmd_log[2].out = <<Ch.K>>
    /\ uart_rxq = <<>>

\* ------------------------------------------------------------------------
\* UART bytes through the dispatcher to the foreground
\* ------------------------------------------------------------------------
HandlerRuns == DispAt("d_call") /\ trap_stack'[Len(trap_stack)].pc = "d_complete"
EchoQuiet ==
    /\ echo_pc = "test"
    /\ ~g_uart_irq_fired
    /\ uart_rx = <<>>
    /\ trap_stack = <<>>

\* C29: with the UART source at priority 1 and enabled, MEIE and MIE set, the
\* foreground of tests/plic_test.c reports every byte typed exactly once and with the
\* value typed, also when bytes arrive back to back: once the FIFO is empty and
\* nothing is left to report, the bytes reported are the bytes typed.
C29_EveryByteReported ==
    EchoQuiet => echo_out = echo_typed

\* The dispatcher's half of the same statement: a byte leaves the FIFO only in a run of
\* the UART handler, claimed as source 1, which stores it in g_rx_char and sets
\* g_uart_irq_fired; the handler never runs on an empty FIFO.
C29_HandlerOncePerByte ==
    [][/\ HandlerRuns => /\ Top.source = PLIC_SOURCE_UART
                         /\ uart_rx # <<>>
                         /\ uart_rx' = Tail(uart_rx)
                         /\ g_rx_char' = Head(uart_rx)
                         /\ g_uart_irq_fired'
       /\ uart_rx' # uart_rx /\ Len(uart_rx') <= Len(uart_rx) => HandlerRuns]_vars

\* One byte was typed and reported.
C29_OneByteReported ==
    /\ EchoQuiet
    /\ Len(echo_typed) = 1
    /\ echo_out = echo_typed

\* ------------------------------------------------------------------------
\* DMA completion interrupt as the synchronisation point
\* ------------------------------------------------------------------------
TransferFinished ==
    /\ dma_last_call = "dma_start_async"
    /\ dma_pc = "idle"
    /\ ~dma_hw.busy
    /\ dma_hw.left = 0

\* C30: after dma_start_async with the DMA source registered, at priority 1, enabled,
\* and global interrupts on, the wait loop on g_dma_done eventually exits under fair
\* progress of the engine and the core; g_dma_done is true only after the transfer has
\* finished, and once the foreground has left the loop every destination word equals
\* its source word (main counts no error).
C30_WaitLoopExits ==
    /\ [](g_dma_done => TransferFinished)
    /\ [](dmat.pc # "main" => TransferFinished /\ Erros = 0)
    /\ [](dmat.pc = "done" => dmat.erros = 0)
    /\ <>(dmat.pc = "done")

\* The largest transfer was started, signalled by the handler and verified.
C30_Witness ==
    /\ dmat.pc = "done"
    /\ dmat.erros = 0
    /\ g_dma_done
    /\ dma_args.size_words = MaxWords
    /\ \A i \in 0..(MaxWords - 1) : ram[dma_args.dst + i] = dma_args.src + i + 1
    /\ trap_stack = <<>>
    /\ ~dma_irq

\* The foreground is in the wait loop while the engine is still moving words.
C30_WitnessWaiting ==
    /\ dmat.pc = "main"
    /\ dma_last_call = "dma_start_async"
    /\ dma_pc = "idle"
    /\ dma_hw.busy
    /\ ~g_dma_done

\* ------------------------------------------------------------------------
\* Lane independence of the CPU reference
\* ------------------------------------------------------------------------
InfLaneVal(lanes, n) ==
    cpu_quant(inf.k_dim * AsInt8(lanes[n][2]) * AsInt8(lanes[n][1]), inf.ctx)

\* C31: in cpu_inference byte n of the packed result depends only on lane n of the
\* weight and input words and on the quantization parameters: two runs that differ
\* only in the other lanes give the same byte n, which is the low byte of the
\* quantized, rectified and saturated sum of lane n, whatever the other lanes hold.
C31_LaneIndependence ==
    inf.pc = "done" =>
        /\ LaneByte(inf.out_a, inf.lane) = LaneByte(inf.out_b, inf.lane)
        /\ \A n \in InfLanes :
              /\ LaneByte(inf.out_a, n) = InfLaneVal(inf.a, n) % 256
              /\ LaneByte(inf.out_b, n) = InfLaneVal(inf.b, n) % 256

\* Two runs agree on the top lane, a lower lane of one of them is negative and
\* saturated, and the results differ.
C31_Witness ==
    /\ inf.pc = "done"
    /\ inf.lane = TILE - 1
    /\ InfLaneVal(inf.b, 0) = 0 - 128
    /\ InfLaneVal(inf.a, 0) = 127
    /\ InfLaneVal(inf.a, inf.lane) = 1
    /\ inf.out_a # inf.out_b
    /\ LaneByte(inf.out_a, inf.lane) = 1

\* ------------------------------------------------------------------------
\* Bootloader: recognition of the magic word
\* ------------------------------------------------------------------------
HasMagic(s) == \E i \in 1..(Len(s) - 3) : SubSeq(s, i, i + 3) = Magic
BootAcked == boot.pc \in {"ack", "len"}

\* C32: the bootloader emits '!' and goes on to read the length as soon as the
\* bytes received contain CA FE BA BE in a row, whatever precedes them, and never
\* before: once it has taken such a stream from the FIFO it is past the wait loop,
\* and it is past the wait loop only then.
C32_MagicRecognised ==
    /\ HasMagic(boot.got) => BootAcked
    /\ BootAcked => HasMagic(boot.got)
    /\ Ch.bang \in { boot.tx[i] : i \in 1..Len(boot.tx) } => HasMagic(boot.got)

\* The second half alone: no '!' and no exit from the loop without the magic word.
C32_NoEarlyAck ==
    /\ BootAcked => HasMagic(boot.got)
    /\ boot.tx # <<>> => boot.tx = <<Ch.bang>> /\ boot.pc = "len"

\* The magic word at the head of the stream is recognised.
C32_PlainMagicAcked ==
    /\ boot.got = Magic
    /\ boot.pc = "len"
    /\ boot.tx = <<Ch.bang>>

\* ------------------------------------------------------------------------
\* UART receive handshake
\* ------------------------------------------------------------------------
\* C33: each hal_uart_getc call waits for RX_VALID, returns the byte at the head of
\* the RX FIFO and issues exactly one RX_POP, after reading the data register; the
\* calls of a single consumer return the received bytes in arrival order, none
\* duplicated or skipped; hal_uart_kbhit consumes nothing and reports RX_VALID.
GetcConsumed ==
    /\ gc.pc \in {"idle", "poll", "read", "pop"} => gc.arrived = gc.ret \o gc.rx
    /\ gc.pc = "pop" => gc.c = Head(gc.rx)
    /\ gc.pc = "return" =>
          /\ gc.arrived = gc.ret \o <<gc.c>> \o gc.rx
          /\ gc.ops = <<"RX_VALID", "DATA", "RX_POP">>
    /\ gc.ret = SubSeq(gc.arrived, 1, Len(gc.ret))

C33_GetcInOrder ==
    /\ []GetcConsumed
    /\ [][hal_uart_kbhit => /\ gc'.rx = gc.rx
                            /\ gc'.ret = gc.ret
                            /\ gc'.kbhit = 1 <=> gc.rx # <<>>]_vars
    /\ [][gc'.ret # gc.ret => /\ gc'.ret = Append(gc.ret, gc.arrived[Len(gc.ret) + 1])
                              /\ gc.ops = <<"RX_VALID", "DATA", "RX_POP">>]_vars

\* Three calls returned three bytes, the second and third of which arrived while a
\* call was in progress, and one more byte is waiting.
C33_Witness ==
    /\ gc.pc = "idle"
    /\ gc.ret = <<65, 66, 66>>
    /\ gc.rx = <<65>>
    /\ gc.kbhit = 1


\* ------------------------------------------------------------------------
\* hal_irq_init and the first handler invocation
\* ------------------------------------------------------------------------
HandlerAboutToRun == InTrap /\ Top.pc = "d_call"

C34_WitnessInvoked ==
    /\ HandlerAboutToRun
    /\ Top.source = PLIC_SOURCE_UART


\* ------------------------------------------------------------------------
\* The handler table
\* ------------------------------------------------------------------------
TableChanged == { i \in TableIds : g_isr_table'[i] # g_isr_table[i] }
Called == { Top.log[i][2] : i \in { j \in 1..Len(Top.log) : Top.log[j][1] = "call" } }

\* C35: hal_irq_register(s, h) with s < 32 sets table[s] = h and leaves every other
\* entry unchanged, with s >= 32 it leaves the table unchanged; no step other than a
\* register call changes the table (not hal_irq_init, not the dispatcher); and the
\* handler the dispatcher calls is the table entry of the claimed source.
C35_TableFrame ==
    /\ [][FgRegister =>
             \E a \in RegisterArgs :
                 g_isr_table' = [i \in TableIds |->
                                   IF i = a[1] /\ a[1] < PLIC_MAX_SOURCES THEN a[2]
                                   ELSE g_isr_table[i]]]_vars
    /\ [][/\ Cardinality(TableChanged) <= 1
          /\ TableChanged # {} => FgRegister
          /\ DOMAIN g_isr_table' = TableIds]_vars
    /\ [](InTrap => /\ Called \subseteq {g_isr_table[Top.source]}
                    /\ NULL \notin Called
                    /\ Top.pc = "d_call" => g_isr_table[Top.source] # NULL)

\* The dispatcher has called the handler registered for the GPIO source while the
\* entry of the UART source holds another handler.
C35_Witness ==
    /\ InTrap
    /\ Top.source = PLIC_SOURCE_GPIO
    /\ Called = {"my_dma_handler"}
    /\ g_isr_table[PLIC_SOURCE_UART] = "my_uart_handler"
    /\ g_isr_table[0] = "my_uart_handler"


\* ------------------------------------------------------------------------
\* The ENABLE bitmap
\* ------------------------------------------------------------------------
BitSet(bits, id) == IF 1 <= id /\ id <= 31 THEN bits \cup {id} ELSE bits
BitClear(bits, id) == IF 1 <= id /\ id <= 31 THEN bits \ {id} ELSE bits
PlicRest == <<plic_priority, plic_threshold, plic_claimed>>

\* C36: hal_plic_enable(id) and hal_plic_disable(id) with 1 <= id <= 31 set, resp.
\* clear, exactly bit id of ENABLE and leave the other bits unchanged; with id = 0 or
\* id >= 32 they leave ENABLE unchanged; they change nothing else in the PLIC; and
\* enable(id) followed by disable(id) restores any bitmap in which bit id was clear.
C36_EnableBitmap ==
    /\ [][FgPlicEnable => /\ \E id \in SourceArgs : plic_enable' = BitSet(plic_enable, id)
                          /\ plic_enable \subseteq plic_enable'
                          /\ Cardinality(plic_enable' \ plic_enable) <= 1
                          /\ PlicRest' = PlicRest]_vars
    /\ [][FgPlicDisable => /\ \E id \in SourceArgs : plic_enable' = BitClear(plic_enable, id)
                           /\ plic_enable' \subseteq plic_enable
                           /\ Cardinality(plic_enable \ plic_enable') <= 1
                           /\ PlicRest' = PlicRest]_vars
    /\ [](/\ plic_enable \subseteq PlicIds
          /\ \A id \in SourceArgs :
                id \notin plic_enable => BitClear(BitSet(plic_enable, id), id) = plic_enable)

\* Both sources were enabled one after the other and the UART handler has run.
C36_Witness ==
    /\ plic_enable = {PLIC_SOURCE_UART, PLIC_SOURCE_GPIO}
    /\ g_uart_irq_fired
    /\ ~InTrap

\* The UART source served a byte and is disabled again while GPIO is still enabled.
C36_WitnessDisabled ==
    /\ plic_enable = {PLIC_SOURCE_GPIO}
    /\ g_uart_irq_fired
    /\ plic_priority[PLIC_SOURCE_UART] > 0
    /\ ~InTrap


\* ------------------------------------------------------------------------
\* ml_run_layer: stores to output[] and the frame of the call
\* ------------------------------------------------------------------------
\* C37: ml_run_layer stores to exactly output[0..out_neurons-1], each element once,
\* and never to output[j] for j >= out_neurons, also when out_neurons is not a
\* multiple of 4; the descriptor with its weights and bias and the input are unchanged
\* from the call to the return.
C37_OutputFrame ==
    /\ [](ml_pc # "idle" =>
             \A j \in DOMAIN ml_wr :
                 /\ ml_wr[j] <= 1
                 /\ j > ml_layer.out_neurons => ml_wr[j] = 0 /\ ml_output[j] = 0
                 /\ ml_pc = "l_ret" /\ j <= ml_layer.out_neurons => ml_wr[j] = 1)
    /\ [][ml_pc \notin {"idle", "l_ret"} =>
             ml_layer' = ml_layer /\ ml_input' = ml_input]_vars

\* A layer of 5 neurons has returned: five stores, three elements of the second
\* group untouched.
C37_Witness ==
    /\ ml_pc = "l_ret"
    /\ ml_layer.out_neurons = TILE + 1
    /\ Len(ml_wr) = TILE + TILE
    /\ \A j \in 1..(TILE + 1) : ml_wr[j] = 1
    /\ \A j \in (TILE + 2)..(TILE + TILE) : ml_wr[j] = 0
    /\ ml_output[TILE + 1] # 0

\* C38: for the L, B and I commands the server takes from the stream exactly 4 bytes
\* of length and min(total, capacity) bytes of payload, answers 'K', and is back at
\* the top of its loop; the payload bytes beyond the capacity are then read one by
\* one as command tags.
LoadTaken == 4 + Min(ld.total, LoadCap(ld.image, ld.tag))
C38_ConsumesClampedTotal ==
    /\ ld.pc # "body"
    /\ ld.pc = "wait" =>
          /\ ld.consumed = LoadTaken
          /\ ld.tx # <<>> /\ Head(ld.tx) = Ch.K
          /\ ld.left + Len(ld.tags) = ld.total - Min(ld.total, LoadCap(ld.image, ld.tag))
          /\ \A i \in 1..Len(ld.tags) : ld.tags[i] = ld.pay

\* The same statement without case 'I' of server/npu_server.c.
C38_ClampedElsewhere ==
    (ld.image = "irq" /\ ld.tag = Ch.I) \/ C38_ConsumesClampedTotal

\* A total above the capacity: the excess was answered as pings.
C38_ExcessAsTags ==
    /\ ld.pc = "wait" /\ ld.left = 0
    /\ ld.total > LoadCap(ld.image, ld.tag)
    /\ ld.tags = [i \in 1..MaxExcess |-> Ch.P]
    /\ ld.tx = <<Ch.K>> \o [i \in 1..MaxExcess |-> Ch.O]

\* Case 'I' of server/npu_server.c with a payload of one byte.
C38_InputsStarved ==
    /\ ld.pc = "body" /\ ld.image = "irq" /\ ld.tag = Ch.I /\ ld.total = 1
    /\ ld.tx = <<>>

\* C39: every hal_timer_get_cycles of a delay leaves the timer enabled, also
\* after hal_timer_stop or hal_timer_reset; every call of
\* hal_timer_delay_us or hal_timer_delay_ms returns, and at its return the counter
\* has advanced by at least the requested cycles since the start was taken.
GetCyclesWrites == dly.pc \in {"snap0", "snap"} /\ dly'.pc \in {"read0", "read"}
C39_DelayTerminates ==
    /\ [][GetCyclesWrites => tmr_enable']_vars
    /\ [](dly.pc \notin {"idle", "snap0"} => tmr_enable)
    /\ [](dly.pc = "ret" => dly.adv >= dly.wait /\ dly.wait = cycles_to_wait(dly.unit, dly.arg))
    /\ (dly.pc = "snap0") ~> (dly.pc = "ret")

\* A delay of more than zero cycles called on a stopped timer has returned.
C39_Witness ==
    /\ dly.pc = "ret"
    /\ dly.stopped
    /\ dly.wait > 0
    /\ dly.adv >= dly.wait

\* A delay returned after the counter wrapped between its start and its end.
C39_WitnessWrap ==
    /\ dly.pc = "ret"
    /\ dly.wait > 0
    /\ dly.now < dly.start

\* C40: when trap_handler of test_csr.c returns, t0, t1, t2 and sp hold the values
\* they had at trap entry. The handler's first four instructions store the entry
\* values of t0, t1, t2 below the entry sp, where nothing overwrites them before
\* the return.
EntryWord(off) == stack_mem[regs.sp - off]
C40_ContextPreserved ==
    JustReturned =>
        /\ regs.sp \in StackTops
        /\ regs.t0 = EntryWord(12)
        /\ regs.t1 = EntryWord(8)
        /\ regs.t2 = EntryWord(4)

\* The same statement for t1, t2 and sp alone.
C40_AllButT0 ==
    JustReturned =>
        /\ regs.sp \in StackTops
        /\ regs.t1 = EntryWord(8)
        /\ regs.t2 = EntryWord(4)

\* The handler returned from the first ECALL with the new mepc in t0.
C40_T0Clobbered ==
    /\ JustReturned
    /\ main_pc = "m_ecall"
    /\ EntryWord(12) \in RegVals
    /\ regs.t0 = InsnAddr("m_ecall") + 4
    /\ regs.t0 = mepc

====
